---- MODULE Spec2Model ----
(***************************************************************************)
(* The run lifecycle manager of server.py: the in-memory run record store, *)
(* the worker threads started by create_run, the two pipelines they run    *)
(* (single-task and technique-task fan-out), the process invoker and the   *)
(* run-group discovery over the runs root directory.                       *)
(*                                                                         *)
(* Text is a sequence of one-character strings, so that strip() and the    *)
(* [-2000:] slice are computed.  A path is a sequence of components.  An   *)
(* Optional value is None (the empty tuple) or Some(v) (a 1-tuple).        *)
(***************************************************************************)
EXTENDS Integers, Sequences, FiniteSets, TLC

\* ------------------------------------------------------------------ bounds

\* Longest technique-task list of a request.
MaxTasks == 2

\* The clock readings told apart: 0..MaxTime.
MaxTime == 2

\* The longest path asked of GET /files, in components.
MaxPathLen == 3

\* The most polls of one wait_for_completion.
MaxPolls == 3

\* The longest text of an analysis file, in characters.
MaxTextLen == 3

\* The most store operations of one thread.
MaxOps == 2

\* ------------------------------------------------------- values and text

None == <<>>
Some(v) == <<v>>

Whitespace == {" ", "\n", "\t"}

RECURSIVE lstrip(_)
lstrip(s) ==
    IF s # <<>> /\ Head(s) \in Whitespace THEN lstrip(Tail(s)) ELSE s

RECURSIVE rstrip(_)
rstrip(s) ==
    IF s # <<>> /\ s[Len(s)] \in Whitespace
    THEN rstrip(SubSeq(s, 1, Len(s) - 1))
    ELSE s

\* str.strip()
strip(s) == rstrip(lstrip(s))

\* The slice bound of _run_cmd: s[-2000:].
TailLen == 2000

\* s[-n:] for n > 0
last_chars(s, n) == IF Len(s) <= n THEN s ELSE SubSeq(s, Len(s) - n + 1, Len(s))

\* Python's `a or b` on strings: the first operand unless it is empty.
str_or(a, b) == IF a # <<>> THEN a ELSE b

\* A message the code builds from a literal: one opaque atom.
Lit(s) == <<s>>

\* ------------------------------------------------------------------ paths

PROJECT_ROOT == <<"project">>
RUNS_DIR == PROJECT_ROOT \o <<"runs">>

\* Path.relative_to for a path under base.
relative_to(p, base) == SubSeq(p, Len(base) + 1, Len(p))

\* --------------------------------------------------------------- requests

TECHNIQUE_TASKS == <<"imbalance", "missing", "encoding", "cv", "scaling", "leakage">>

\* RunRequest.tasks: absent, or a list of technique-task names.
TaskFields ==
    {None} \cup {Some(SubSeq(TECHNIQUE_TASKS, 1, n)) : n \in 0..MaxTasks}

RunRequest(lite, tasks) ==
    [competition_set |-> "low.txt", agent_id |-> "dummy", lite |-> lite,
     n_seeds |-> 1, n_workers |-> 1, retain |-> FALSE, data_dir |-> None,
     tasks |-> tasks]

Requests == {RunRequest(lite, t) : lite \in BOOLEAN, t \in TaskFields}

\* The requests of the concurrent runs: one per pipeline.
ConcurrentRequests ==
    {RunRequest(TRUE, None), RunRequest(TRUE, Some(SubSeq(TECHNIQUE_TASKS, 1, MaxTasks)))}

\* A test that sends every request with a task list, even an empty one, to the
\* fan-out.
truthy_tasks_is_not_none(req) == req.tasks # None

\* `if req.tasks:` -- false for None and for the empty list.
truthy_tasks(req) == req.tasks # None /\ req.tasks[1] # <<>>

\* ------------------------------------------------- external command results

DiskFull == <<"d", "i", "s", "k", " ", "f", "u", "l", "l">>

\* A captured stream longer than the tail the log keeps, with a line end.
LongText ==
    [i \in 1..(TailLen + 2) |->
        IF i = 1 THEN "a" ELSE IF i = TailLen + 2 THEN "\n" ELSE "b"]

\* What subprocess.run can return: exit code and the two captured streams.
Outcomes ==
    { [returncode |-> 0, stdout |-> <<>>, stderr |-> <<>>],
      [returncode |-> 0, stdout |-> <<"o", "k", "\n">>, stderr |-> <<"w">>],
      [returncode |-> 1, stdout |-> <<>>, stderr |-> DiskFull],
      [returncode |-> 1, stdout |-> <<"o">>, stderr |-> <<"e", "\n">>],
      [returncode |-> 2, stdout |-> <<"o", "\n">>, stderr |-> <<" ">>],
      [returncode |-> 1, stdout |-> <<"\n">>, stderr |-> <<>>],
      [returncode |-> 0, stdout |-> LongText, stderr |-> <<>>],
      [returncode |-> 1, stdout |-> <<"o">>, stderr |-> LongText] }

\* The outcomes with nothing on stdout: one success and one failure.
ExitOutcomes == {o \in Outcomes : o.stdout = <<>>}

\* ------------------------------------------------------------------ state

\* The identifiers uuid4 hands out: two runs, which may overlap in time.
RunIds == {1, 2}

VARIABLES
    _RUN_STATE,   \* the store: run_id -> RunRecord
    pc,           \* per run: where its worker thread stands ("idle": no thread)
    local,        \* per run: the worker's local variables
    runs_exists,  \* whether the runs root directory exists
    dirs,         \* the directories in the runs root: name -> run whose agent made it
    invoked,      \* per run: the external commands its worker has run, in order
    posted,       \* per run: the JSON body of the POST /runs that created it
    response,     \* the response of the last HTTP request served
    now,          \* time.time()
    technique_grades,  \* run group -> what technique_grades.json in it holds
    walked,       \* per run: the directory entries its grading visited, in order
    waiter,       \* the client thread inside Client.wait_for_completion
    call,         \* a function applied on its own: its arguments and its result
    _STATE_LOCK,  \* the thread that holds the store's lock, if any
    threads,      \* per thread inside a store operation: where it stands
    history       \* the values each record has had, and the writes in order

vars == <<_RUN_STATE, pc, local, runs_exists, dirs, invoked,
          posted, response, now, technique_grades, walked, waiter, call,
                   _STATE_LOCK, threads, history>>

NoLocal ==
    [before |-> {}, run_group |-> None, all_run_groups |-> <<>>, i |-> 1,
     exc |-> None]

\* ------------------------------------------------------------------ store

RunRecord(run_id, req) ==
    [run_id |-> run_id, status |-> "queued",
     created_at |-> now, updated_at |-> now, request |-> req,
     message |-> None, run_group |-> None, run_dir |-> None, logs |-> <<>>]

\* kwargs is a record of field overrides; data.update(kwargs).
update_fields(rec, kwargs) ==
    [f \in DOMAIN rec |-> IF f \in DOMAIN kwargs THEN kwargs[f] ELSE rec[f]]

\* An update that builds the record anew from its request, without the dump.
_update_drops_logs(state, run_id, kwargs) ==
    IF run_id \notin DOMAIN state
    THEN state
    ELSE [state EXCEPT ![run_id] =
             [update_fields([state[run_id] EXCEPT !.logs = <<>>], kwargs)
                 EXCEPT !.updated_at = now]]

\* An update that stores a record for an identifier the store does not have.
_update_upserts(state, run_id, kwargs) ==
    IF run_id \notin DOMAIN state
    THEN state @@ (run_id :> update_fields(RunRecord(run_id, RunRequest(TRUE, None)),
                                           kwargs))
    ELSE [state EXCEPT ![run_id] =
             [update_fields(state[run_id], kwargs) EXCEPT !.updated_at = now]]

\* _update: under the lock, a no-op for an unknown id.
_update(state, run_id, kwargs) ==
    IF run_id \notin DOMAIN state
    THEN state
    ELSE [state EXCEPT ![run_id] =
             [update_fields(state[run_id], kwargs) EXCEPT !.updated_at = now]]

\* An append that puts the new entry first.
_append_log_prepends(state, run_id, entry) ==
    IF run_id \notin DOMAIN state
    THEN state
    ELSE [state EXCEPT ![run_id].logs = <<entry>> \o state[run_id].logs,
                       ![run_id].updated_at = now]

\* An append that leaves updated_at as it was.
_append_log_keeps_time(state, run_id, entry) ==
    IF run_id \notin DOMAIN state
    THEN state
    ELSE [state EXCEPT ![run_id].logs = Append(state[run_id].logs, entry)]

\* _append_log: under the lock, a no-op for an unknown id.
_append_log(state, run_id, entry) ==
    IF run_id \notin DOMAIN state
    THEN state
    ELSE [state EXCEPT ![run_id].logs = Append(state[run_id].logs, entry),
                       ![run_id].updated_at = now]

\* ------------------------------------------------------- process invoker

\* An entry that keeps the whole of both streams.
log_entry_untruncated(cmd, out) ==
    [cmd |-> cmd,
     returncode |-> out.returncode,
     stdout |-> strip(out.stdout),
     stderr |-> strip(out.stderr)]

\* The log entry _run_cmd appends for a finished command.
log_entry(cmd, out) ==
    [cmd |-> cmd,
     returncode |-> out.returncode,
     stdout |-> last_chars(strip(out.stdout), TailLen),
     stderr |-> last_chars(strip(out.stderr), TailLen)]

\* A fault text that prefers stdout to stderr.
run_cmd_error_prefers_stdout(out) ==
    str_or(strip(out.stdout), str_or(strip(out.stderr), Lit("command failed")))

\* The text of the RuntimeError _run_cmd raises for a nonzero exit.
run_cmd_error(out) ==
    str_or(strip(out.stderr), str_or(strip(out.stdout), Lit("command failed")))

\* An invoker that does not look at the exit code.
_run_cmd_ignores_exit(r, cmd, out, cont) ==
    /\ invoked' = [invoked EXCEPT ![r] = Append(@, [cmd |-> cmd, out |-> out])]
    /\ _RUN_STATE' = _append_log(_RUN_STATE, r, log_entry(cmd, out))
    /\ pc' = [pc EXCEPT ![r] = cont]
    /\ UNCHANGED local

\* An invoker that raises for a nonzero exit before it logs the command.
_run_cmd_raises_before_log(r, cmd, out, cont) ==
    /\ invoked' = [invoked EXCEPT ![r] = Append(@, [cmd |-> cmd, out |-> out])]
    /\ IF out.returncode # 0
       THEN /\ pc' = [pc EXCEPT ![r] = "except"]
            /\ local' = [local EXCEPT ![r].exc = Some(run_cmd_error(out))]
            /\ UNCHANGED _RUN_STATE
       ELSE /\ pc' = [pc EXCEPT ![r] = cont]
            /\ _RUN_STATE' = _append_log(_RUN_STATE, r, log_entry(cmd, out))
            /\ UNCHANGED local

\* _run_cmd(cmd, run_id) where subprocess.run returns `out`: the entry is
\* appended, then a nonzero exit raises; otherwise the worker goes on at `cont`.
_run_cmd(r, cmd, out, cont) ==
    /\ invoked' = [invoked EXCEPT ![r] = Append(@, [cmd |-> cmd, out |-> out])]
    /\ _RUN_STATE' = _append_log(_RUN_STATE, r, log_entry(cmd, out))
    /\ IF out.returncode # 0
       THEN /\ pc' = [pc EXCEPT ![r] = "except"]
            /\ local' = [local EXCEPT ![r].exc = Some(run_cmd_error(out))]
       ELSE /\ pc' = [pc EXCEPT ![r] = cont]
            /\ UNCHANGED local

\* -------------------------------------------------------------- discovery

\* {p.name for p in RUNS_DIR.iterdir() if p.is_dir()}
listing == DOMAIN dirs

\* sorted(diff)[-1]
sorted_last(S) == CHOOSE d \in S : \A e \in S : e <= d

\* _discover_new_run_group(before)
_discover_new_run_group(before) ==
    IF ~runs_exists
    THEN None
    ELSE LET diff == listing \ before IN
         IF diff # {} THEN Some(sorted_last(diff)) ELSE None

\* ---------------------------------------------------------------- commands

prepare_cmd(req) ==
    <<"python", "-m", "mlebench.cli", "prepare", "--list", req.competition_set>>
    \o (IF req.lite THEN <<"--lite">> ELSE <<>>)
    \o (IF req.data_dir # None THEN <<"--data-dir", req.data_dir[1]>> ELSE <<>>)

\* tmp is the name of the worker's private copy of the competition-set file.
agent_cmd(req, tmp) ==
    <<"python", "run_agent.py", "--agent-id", req.agent_id,
      "--competition-set", tmp, "--n-seeds", req.n_seeds,
      "--n-workers", req.n_workers>>
    \o (IF req.retain THEN <<"--retain">> ELSE <<>>)
    \o (IF req.data_dir # None THEN <<"--data-dir", req.data_dir[1]>> ELSE <<>>)

technique_agent_cmd(req, tmp, task_name) ==
    <<"python", "run_agent.py", "--agent-id", req.agent_id,
      "--competition-set", tmp, "--n-seeds", req.n_seeds,
      "--n-workers", req.n_workers, "--technique-task", task_name>>
    \o (IF req.retain THEN <<"--retain">> ELSE <<>>)
    \o (IF req.data_dir # None THEN <<"--data-dir", req.data_dir[1]>> ELSE <<>>)

make_sub_cmd(run_group) ==
    <<"python", "experiments/make_submission.py",
      "--metadata", RUNS_DIR \o <<run_group, "metadata.json">>,
      "--output", RUNS_DIR \o <<run_group, "submission.jsonl">> >>

grade_cmd(req, run_group) ==
    <<"python", "-m", "mlebench.cli", "grade",
      "--submission", RUNS_DIR \o <<run_group, "submission.jsonl">>,
      "--output-dir", RUNS_DIR \o <<run_group, "grading">> >>
    \o (IF req.lite THEN <<"--lite">> ELSE <<>>)
    \o (IF req.data_dir # None THEN <<"--data-dir", req.data_dir[1]>> ELSE <<>>)

\* The name tempfile.NamedTemporaryFile gives run r's copy.
tmp_name(r) == <<"tmp", r>>

\* What a run of the agent tool leaves in the runs root: nothing (d = 0), or one
\* new directory d.  Its name starts with the time of its creation, so it sorts
\* after the names of the directories made before it.
AgentDirChoices == {0, Cardinality(DOMAIN dirs) + 1}

agent_effect(r, d) ==
    IF d = 0
    THEN UNCHANGED <<runs_exists, dirs>>
    ELSE /\ runs_exists' = TRUE
         /\ dirs' = dirs @@ (d :> r)

\* The text of the fault of reading a competition-set file that cannot be read.
ReadError == Lit("[Errno 2] No such file or directory: 'low.txt'")
\* The text of the fault of listing a runs root that does not exist.
ListError == Lit("[Errno 2] No such file or directory: 'runs'")

raise(r, text) ==
    /\ pc' = [pc EXCEPT ![r] = "except"]
    /\ local' = [local EXCEPT ![r].exc = Some(text)]

\* ----------------------------------------------------------------- intake

\* str(uuid.uuid4()): an identifier no record has.
fresh_run_id == CHOOSE r \in RunIds : r \notin DOMAIN _RUN_STATE

\* An intake that gives every run the same identifier.
create_run_reuses_id(req) ==
    /\ DOMAIN _RUN_STATE # RunIds
    /\ LET run_id == CHOOSE r \in RunIds : TRUE IN
       /\ _RUN_STATE' = _RUN_STATE @@ (run_id :> RunRecord(run_id, req))
       /\ pc' = [pc EXCEPT ![run_id] = "worker"]
       /\ response' = [request |-> <<"POST", "/runs">>, code |-> 200,
                       body |-> [run_id |-> run_id, status |-> "queued"]]
    /\ UNCHANGED <<local, runs_exists, dirs, invoked, now, technique_grades, walked, waiter, call,
                   _STATE_LOCK, threads, history>>

\* create_run: the record is stored, then the worker thread is started.
create_run(req) ==
    /\ DOMAIN _RUN_STATE # RunIds
    /\ LET run_id == fresh_run_id IN
       /\ _RUN_STATE' = _RUN_STATE @@ (run_id :> RunRecord(run_id, req))
       /\ pc' = [pc EXCEPT ![run_id] = "worker"]
       /\ response' = [request |-> <<"POST", "/runs">>, code |-> 200,
                       body |-> [run_id |-> run_id, status |-> "queued"]]
    /\ UNCHANGED <<local, runs_exists, dirs, invoked, now, technique_grades, walked, waiter, call,
                   _STATE_LOCK, threads, history>>

\* The JSON body that states every field of req that is not null.
body_of(req) ==
    LET keys == {"competition_set", "agent_id", "lite", "n_seeds", "n_workers",
                 "retain"} \cup (IF req.tasks # None THEN {"tasks"} ELSE {})
    IN  [k \in keys |-> IF k = "tasks" THEN req.tasks[1] ELSE req[k]]

\* The validation of a body against RunRequest: a field the body lacks takes its
\* default, a key that RunRequest does not declare is dropped.
parse_RunRequest(body) ==
    LET field(k, default) == IF k \in DOMAIN body THEN body[k] ELSE default IN
    [competition_set |-> field("competition_set", "low.txt"),
     agent_id |-> field("agent_id", "dummy"),
     lite |-> field("lite", TRUE),
     n_seeds |-> field("n_seeds", 1),
     n_workers |-> field("n_workers", 1),
     retain |-> field("retain", FALSE),
     data_dir |-> None,
     tasks |-> IF "tasks" \in DOMAIN body THEN Some(body.tasks) ELSE None]

\* POST /runs: the body is validated into a RunRequest, which create_run gets.
post_runs(body) ==
    /\ create_run(parse_RunRequest(body))
    /\ posted' = posted @@ (fresh_run_id :> body)

\* ----------------------------------------------------------------- worker

\* A worker that does not mark its record running.
worker_start_skips_running(r) ==
    /\ pc[r] = "worker"
    /\ pc' = [pc EXCEPT ![r] = "snapshot"]
    /\ UNCHANGED <<_RUN_STATE, local, runs_exists, dirs, invoked>>
    /\ UNCHANGED <<posted, response, now, technique_grades, walked, waiter, call,
                   _STATE_LOCK, threads, history>>

\* _worker, line 131: _update(run_id, status="running")
worker_start(r) ==
    /\ pc[r] = "worker"
    /\ _RUN_STATE' = _update(_RUN_STATE, r, [status |-> "running"])
    /\ pc' = [pc EXCEPT ![r] = "snapshot"]
    /\ UNCHANGED <<local, runs_exists, dirs, invoked>>
    /\ UNCHANGED <<posted, response, now, technique_grades, walked, waiter, call,
                   _STATE_LOCK, threads, history>>

\* A snapshot taken outside the try block: a missing runs root ends the thread.
worker_snapshot_outside_try(r) ==
    /\ pc[r] = "snapshot"
    /\ IF ~runs_exists
       THEN /\ pc' = [pc EXCEPT ![r] = "done"]
            /\ UNCHANGED local
       ELSE /\ pc' = [pc EXCEPT ![r] = "prepare"]
            /\ local' = [local EXCEPT ![r].before = listing]
    /\ UNCHANGED <<_RUN_STATE, runs_exists, dirs, invoked>>
    /\ UNCHANGED <<posted, response, now, technique_grades, walked, waiter, call,
                   _STATE_LOCK, threads, history>>

\* _worker, line 133: the listing of the runs root; RUNS_DIR.iterdir() faults
\* before the guard `RUNS_DIR.exists()` is looked at when the root is missing.
worker_snapshot(r) ==
    /\ pc[r] = "snapshot"
    /\ IF ~runs_exists
       THEN raise(r, ListError)
       ELSE /\ pc' = [pc EXCEPT ![r] = "prepare"]
            /\ local' = [local EXCEPT ![r].before = listing]
    /\ UNCHANGED <<_RUN_STATE, runs_exists, dirs, invoked>>
    /\ UNCHANGED <<posted, response, now, technique_grades, walked, waiter, call,
                   _STATE_LOCK, threads, history>>

\* Stage 1 of both pipelines: the prepare command.
prepare(r, O) ==
    /\ pc[r] = "prepare"
    /\ \E out \in O :
         _run_cmd(r, prepare_cmd(_RUN_STATE[r].request), out,
                      IF truthy_tasks(_RUN_STATE[r].request)
                      THEN "tt_read_ids" ELSE "agent")
    /\ UNCHANGED <<runs_exists, dirs>>
    /\ UNCHANGED <<posted, response, now, technique_grades, walked, waiter, call,
                   _STATE_LOCK, threads, history>>

\* A handler that swallows the fault and leaves the record as it is.
worker_except_swallows(r) ==
    /\ pc[r] = "except"
    /\ pc' = [pc EXCEPT ![r] = "done"]
    /\ local' = [local EXCEPT ![r] = NoLocal]
    /\ UNCHANGED <<_RUN_STATE, runs_exists, dirs, invoked>>
    /\ UNCHANGED <<posted, response, now, technique_grades, walked, waiter, call,
                   _STATE_LOCK, threads, history>>

\* _worker's handler: except Exception as exc: _update(status="failed", ...)
worker_except(r) ==
    /\ pc[r] = "except"
    /\ _RUN_STATE' = _update(_RUN_STATE, r,
                             [status |-> "failed", message |-> Some(local[r].exc[1])])
    /\ pc' = [pc EXCEPT ![r] = "done"]
    /\ local' = [local EXCEPT ![r] = NoLocal]
    /\ UNCHANGED <<runs_exists, dirs, invoked>>
    /\ UNCHANGED <<posted, response, now, technique_grades, walked, waiter, call,
                   _STATE_LOCK, threads, history>>

\* ------------------------------------------------ _run_regular_competition

\* Stage 2: the competition-set file is copied (the read may fault), then the
\* agent command runs.
agent(r, O) ==
    /\ pc[r] = "agent"
    /\ \/ /\ raise(r, ReadError)
          /\ UNCHANGED <<_RUN_STATE, runs_exists, dirs, invoked>>
       \/ \E out \in O, d \in AgentDirChoices :
            /\ _run_cmd(r, agent_cmd(_RUN_STATE[r].request, tmp_name(r)),
                            out, "discover")
            /\ agent_effect(r, d)
    /\ UNCHANGED <<posted, response, now, technique_grades, walked, waiter, call,
                   _STATE_LOCK, threads, history>>

\* Lines 175-177: discovery, fatal when nothing new is found.
discover(r) ==
    /\ pc[r] = "discover"
    /\ LET run_group == _discover_new_run_group(local[r].before) IN
       IF run_group = None
       THEN raise(r, Lit("Could not find new run group after agent run"))
       ELSE /\ pc' = [pc EXCEPT ![r] = "make_submission"]
            /\ local' = [local EXCEPT ![r].run_group = run_group]
    /\ UNCHANGED <<_RUN_STATE, runs_exists, dirs, invoked>>
    /\ UNCHANGED <<posted, response, now, technique_grades, walked, waiter, call,
                   _STATE_LOCK, threads, history>>

\* Stage 3: the submission builder.
make_submission(r, O) ==
    /\ pc[r] = "make_submission"
    /\ \E out \in O :
         _run_cmd(r, make_sub_cmd(local[r].run_group[1]), out, "grade")
    /\ UNCHANGED <<runs_exists, dirs>>
    /\ UNCHANGED <<posted, response, now, technique_grades, walked, waiter, call,
                   _STATE_LOCK, threads, history>>

\* Stage 4: the grading command.
grade(r, O) ==
    /\ pc[r] = "grade"
    /\ \E out \in O :
         _run_cmd(r, grade_cmd(_RUN_STATE[r].request, local[r].run_group[1]),
                      out, "complete")
    /\ UNCHANGED <<runs_exists, dirs>>
    /\ UNCHANGED <<posted, response, now, technique_grades, walked, waiter, call,
                   _STATE_LOCK, threads, history>>

\* A final update that records the absolute path of the run-group directory.
completed_fields_absolute(run_group) ==
    [status |-> "completed",
     run_group |-> Some(run_group),
     run_dir |-> Some(RUNS_DIR \o <<run_group>>)]

\* The kwargs of the final _update of either pipeline.
completed_fields(run_group) ==
    [status |-> "completed",
     run_group |-> Some(run_group),
     run_dir |-> Some(relative_to(RUNS_DIR \o <<run_group>>, PROJECT_ROOT))]

\* A final update followed, inside the try block, by a statement that faults.
complete_then_faults(r) ==
    /\ pc[r] = "complete"
    /\ _RUN_STATE' = _update(_RUN_STATE, r, completed_fields(local[r].run_group[1]))
    /\ raise(r, Lit("command failed"))
    /\ UNCHANGED <<runs_exists, dirs, invoked>>
    /\ UNCHANGED <<posted, response, now, technique_grades, walked, waiter, call,
                   _STATE_LOCK, threads, history>>

\* Line 203.
complete(r) ==
    /\ pc[r] = "complete"
    /\ _RUN_STATE' = _update(_RUN_STATE, r, completed_fields(local[r].run_group[1]))
    /\ pc' = [pc EXCEPT ![r] = "done"]
    /\ local' = [local EXCEPT ![r] = NoLocal]
    /\ UNCHANGED <<runs_exists, dirs, invoked>>
    /\ UNCHANGED <<posted, response, now, technique_grades, walked, waiter, call,
                   _STATE_LOCK, threads, history>>

\* --------------------------------------------------- _run_technique_tasks

\* Lines 218-224: the competition ids are read (the read may fault).
tt_read_ids(r) ==
    /\ pc[r] = "tt_read_ids"
    /\ \/ raise(r, ReadError)
       \/ /\ pc' = [pc EXCEPT ![r] = "tt_loop"]
          /\ local' = [local EXCEPT ![r].all_run_groups = <<>>, ![r].i = 1]
    /\ UNCHANGED <<_RUN_STATE, runs_exists, dirs, invoked>>
    /\ UNCHANGED <<posted, response, now, technique_grades, walked, waiter, call,
                   _STATE_LOCK, threads, history>>

\* A fan-out that goes through the tasks from the last to the first.
tasks_of_reversed(r) ==
    LET t == _RUN_STATE[r].request.tasks
        l == IF t # None /\ t[1] # <<>> THEN t[1] ELSE TECHNIQUE_TASKS
    IN  [k \in 1..Len(l) |-> l[Len(l) + 1 - k]]

\* Line 218: `req.tasks or [...]`.
tasks_of(r) ==
    LET t == _RUN_STATE[r].request.tasks IN
    IF t # None /\ t[1] # <<>> THEN t[1] ELSE TECHNIQUE_TASKS

\* The entry line 228 appends before each task's agent run.
stage_entry(task_name) == [stage |-> <<"Running technique-task: ", task_name>>]

\* A loop that, when it is over, takes the last group found as the main one.
tt_loop_takes_last(r) ==
    /\ pc[r] = "tt_loop"
    /\ IF local[r].i <= Len(tasks_of(r))
       THEN /\ _RUN_STATE' = _append_log(_RUN_STATE, r,
                                         stage_entry(tasks_of(r)[local[r].i]))
            /\ pc' = [pc EXCEPT ![r] = "tt_agent"]
            /\ UNCHANGED local
       ELSE /\ UNCHANGED _RUN_STATE
            /\ IF local[r].all_run_groups = <<>>
               THEN raise(r, Lit("Could not find any run groups after technique-task runs"))
               ELSE /\ pc' = [pc EXCEPT ![r] = "tt_complete"]
                    /\ local' = [local EXCEPT
                                   ![r].run_group =
                                      Some(local[r].all_run_groups[
                                              Len(local[r].all_run_groups)])]
    /\ UNCHANGED <<runs_exists, dirs, invoked>>
    /\ UNCHANGED <<posted, response, now, technique_grades, walked, waiter, call,
                   _STATE_LOCK, threads, history>>

\* Line 227-228, and 254-259 when the loop is over.
tt_loop(r) ==
    /\ pc[r] = "tt_loop"
    /\ IF local[r].i <= Len(tasks_of(r))
       THEN /\ _RUN_STATE' = _append_log(_RUN_STATE, r,
                                         stage_entry(tasks_of(r)[local[r].i]))
            /\ pc' = [pc EXCEPT ![r] = "tt_agent"]
            /\ UNCHANGED local
       ELSE /\ UNCHANGED _RUN_STATE
            /\ IF local[r].all_run_groups = <<>>
               THEN raise(r, Lit("Could not find any run groups after technique-task runs"))
               ELSE /\ pc' = [pc EXCEPT ![r] = "tt_complete"]
                    /\ local' = [local EXCEPT
                                   ![r].run_group = Some(local[r].all_run_groups[1])]
    /\ UNCHANGED <<runs_exists, dirs, invoked>>
    /\ UNCHANGED <<posted, response, now, technique_grades, walked, waiter, call,
                   _STATE_LOCK, threads, history>>

\* Lines 230-246: the copy of the competition-set file, then the agent command.
tt_agent(r, O) ==
    /\ pc[r] = "tt_agent"
    /\ \/ /\ raise(r, ReadError)
          /\ UNCHANGED <<_RUN_STATE, runs_exists, dirs, invoked>>
       \/ \E out \in O, d \in AgentDirChoices :
            /\ _run_cmd(r, technique_agent_cmd(_RUN_STATE[r].request, tmp_name(r),
                                                   tasks_of(r)[local[r].i]),
                            out, "tt_discover")
            /\ agent_effect(r, d)
    /\ UNCHANGED <<posted, response, now, technique_grades, walked, waiter, call,
                   _STATE_LOCK, threads, history>>

\* A discovery step that writes the group to the record as soon as it is found.
tt_discover_records_group(r) ==
    /\ pc[r] = "tt_discover"
    /\ LET run_group == _discover_new_run_group(local[r].before) IN
       /\ local' = [local EXCEPT
                      ![r].i = @ + 1,
                      ![r].all_run_groups =
                          IF run_group # None THEN Append(@, run_group[1]) ELSE @,
                      ![r].before =
                          IF run_group # None THEN @ \cup {run_group[1]} ELSE @]
       /\ _RUN_STATE' = IF run_group # None
                        THEN _update(_RUN_STATE, r, [run_group |-> run_group])
                        ELSE _RUN_STATE
    /\ pc' = [pc EXCEPT ![r] = "tt_loop"]
    /\ UNCHANGED <<runs_exists, dirs, invoked>>
    /\ UNCHANGED <<posted, response, now, technique_grades, walked, waiter, call,
                   _STATE_LOCK, threads, history>>

\* Lines 249-252.
tt_discover(r) ==
    /\ pc[r] = "tt_discover"
    /\ LET run_group == _discover_new_run_group(local[r].before) IN
       local' = [local EXCEPT
                   ![r].i = @ + 1,
                   ![r].all_run_groups =
                       IF run_group # None THEN Append(@, run_group[1]) ELSE @,
                   ![r].before =
                       IF run_group # None THEN @ \cup {run_group[1]} ELSE @]
    /\ pc' = [pc EXCEPT ![r] = "tt_loop"]
    /\ UNCHANGED <<_RUN_STATE, runs_exists, dirs, invoked>>
    /\ UNCHANGED <<posted, response, now, technique_grades, walked, waiter, call,
                   _STATE_LOCK, threads, history>>

\* ---------------------------------------------------------------- grading

\* str.split(): the maximal runs of characters that are not whitespace.
RECURSIVE word_end(_, _)
word_end(s, n) ==
    IF n < Len(s) /\ s[n + 1] \notin Whitespace THEN word_end(s, n + 1) ELSE n

RECURSIVE split(_)
split(s) ==
    IF s = <<>> THEN <<>>
    ELSE IF Head(s) \in Whitespace THEN split(Tail(s))
    ELSE LET n == word_end(s, 1)
         IN  <<SubSeq(s, 1, n)>> \o split(SubSeq(s, n + 1, Len(s)))

\* f"{task_id}_analysis.json"
analysis_file(task_id) == <<task_id, "_analysis.json">>

\* A grader that counts the characters of the file, not its words.
grade_technique_task_counts_chars(task_id, submission_dir) ==
    IF analysis_file(task_id) \notin DOMAIN submission_dir
    THEN [task |-> task_id, score |-> 0, passed |-> FALSE, word_count |-> 0,
          message |-> <<task_id, "_analysis.json not found">>]
    ELSE LET content == submission_dir[analysis_file(task_id)]
         IN  IF content # None
             THEN LET word_count == Len(content[1])
                  IN  [task |-> task_id,
                       score |-> IF word_count > 0 THEN 1 ELSE 0,
                       passed |-> word_count > 0,
                       word_count |-> word_count,
                       message |-> <<"Agent wrote ", ToString(word_count), " words">>]
             ELSE [task |-> task_id, score |-> 0, passed |-> FALSE,
                   word_count |-> 0,
                   message |-> <<"Error reading file: ", "[Errno 13] Permission denied">>]

\* A submission directory is a map from file name to what reading the file
\* gives: Some(text), or None when read_text raises.
grade_technique_task(task_id, submission_dir) ==
    IF analysis_file(task_id) \notin DOMAIN submission_dir
    THEN [task |-> task_id, score |-> 0, passed |-> FALSE, word_count |-> 0,
          message |-> <<task_id, "_analysis.json not found">>]
    ELSE LET content == submission_dir[analysis_file(task_id)]
         IN  IF content # None
             THEN LET word_count == Len(split(content[1]))
                  IN  [task |-> task_id,
                       score |-> IF word_count > 0 THEN 1 ELSE 0,
                       passed |-> word_count > 0,
                       word_count |-> word_count,
                       message |-> <<"Agent wrote ", ToString(word_count), " words">>]
             ELSE [task |-> task_id, score |-> 0, passed |-> FALSE,
                   word_count |-> 0,
                   message |-> <<"Error reading file: ", "[Errno 13] Permission denied">>]

\* dict.update and d[k] = v: the keys of e take e's values, the other keys of
\* d keep theirs.
dict_update(d, e) ==
    [k \in DOMAIN d \cup DOMAIN e |-> IF k \in DOMAIN e THEN e[k] ELSE d[k]]

\* The loop of grade_all_tasks over tasks[1..n], from the initial results.
RECURSIVE grade_tasks(_, _, _)
grade_tasks(submission_dir, tasks, n) ==
    IF n = 0
    THEN [tasks |-> <<>>,
          summary |-> [total |-> Len(tasks), passed |-> 0, total_words |-> 0]]
    ELSE LET results == grade_tasks(submission_dir, tasks, n - 1)
             task_result == grade_technique_task(tasks[n], submission_dir)
         IN  [tasks |-> dict_update(results.tasks, (tasks[n] :> task_result)),
              summary |->
                 [total |-> results.summary.total,
                  passed |-> results.summary.passed
                                + (IF task_result.passed THEN 1 ELSE 0),
                  total_words |-> results.summary.total_words
                                     + task_result.word_count]]

\* Line 91 divides by len(tasks): with no task the call ends in
\* ZeroDivisionError and returns nothing.
grade_all_tasks_raises(tasks) == Len(tasks) = 0

\* pass_rate, a quotient of two integers, is kept as the pair of them.
grade_all_tasks(submission_dir, tasks) ==
    LET results == grade_tasks(submission_dir, tasks, Len(tasks))
    IN  [tasks |-> results.tasks,
         summary |-> dict_update(results.summary,
                        [pass_rate |-> <<results.summary.passed, Len(tasks)>>])]

\* comp_dir.name.split("_")[0] of a name given as its words and separators.
RECURSIVE comp_name(_)
comp_name(name) ==
    IF name = <<>> \/ Head(name) = "_" THEN <<>>
    ELSE <<Head(name)>> \o comp_name(Tail(name))

\* An entry of a run-group directory: its name, whether it is a directory,
\* and what the path "submission" in it is: None when nothing has that name,
\* else the files under it.
Entry(name, is_dir, submission) ==
    [name |-> name, is_dir |-> is_dir, submission |-> submission,
     submission_is_dir |-> submission # None]

\* A subdirectory in which "submission" is a plain file: the path exists and
\* no path under it does.
SubmissionFileEntry(name) ==
    [name |-> name, is_dir |-> TRUE, submission |-> Some(<<>>),
     submission_is_dir |-> FALSE]

\* A merge that files the grades under the whole name of the subdirectory.
merge_entry_keys_by_dir_name(all_grades, comp_dir, tasks) ==
    IF ~comp_dir.is_dir THEN all_grades
    ELSE IF comp_dir.submission = None THEN all_grades
    ELSE dict_update(all_grades,
            (comp_dir.name :> grade_all_tasks(comp_dir.submission[1], tasks)))

\* Lines 267-275, the body of the inner loop for one entry.
merge_entry(all_grades, comp_dir, tasks) ==
    IF ~comp_dir.is_dir THEN all_grades
    ELSE IF comp_dir.submission = None THEN all_grades
    ELSE LET grades == grade_all_tasks(comp_dir.submission[1], tasks)
             name == comp_name(comp_dir.name)
             started == IF name \notin DOMAIN all_grades
                        THEN dict_update(all_grades, (name :> <<>>))
                        ELSE all_grades
         IN  dict_update(started, (name :> dict_update(started[name], grades)))

\* Lines 262-275 over the entries walked[1..n], in the order of the walk.
RECURSIVE merge_grades(_, _, _)
merge_grades(entries, tasks, n) ==
    IF n = 0 THEN <<>>
    ELSE merge_entry(merge_grades(entries, tasks, n - 1), entries[n], tasks)

\* The entries the two loops visit: run-group after run-group, each in the
\* order its iterdir() gives.
RECURSIVE walk(_, _)
walk(all_run_groups, iterdir) ==
    IF all_run_groups = <<>> THEN <<>>
    ELSE [k \in 1..Len(iterdir[Head(all_run_groups)]) |->
             dict_update(iterdir[Head(all_run_groups)][k],
                         [rg |-> Head(all_run_groups)])]
         \o walk(Tail(all_run_groups), iterdir)

\* A run-group directory the grading finds empty.
PlainListings == { <<>> }

\* The tasks a request can name.
GradeTasks == {TECHNIQUE_TASKS[k] : k \in 1..MaxTasks}

\* An analysis the agent wrote: two words and a line end.
Words == <<"a", " ", "b", "\n">>

\* What reading an analysis file can give: words, white space alone, nothing,
\* or a fault.
FileStates == {Some(Words), Some(<<"\n", " ">>), Some(<<>>), None}

\* Submission directories: empty, with the analysis of one task, with the
\* analyses of all tasks.
OneAnalysis == {(analysis_file(t) :> Some(Words)) : t \in GradeTasks}

SubmissionDirs ==
    {<<>>} \cup {(analysis_file(t) :> c) : t \in GradeTasks, c \in FileStates}
           \cup {[f \in {analysis_file(t) : t \in GradeTasks} |-> Some(Words)]}

\* The subdirectories the agent names <competition>_<suffix>.
DirNames ==
    {<<"spaceship", "_", "a">>, <<"spaceship", "_", "b">>, <<"titanic", "_", "a">>}

Entries ==
    {Entry(n, TRUE, Some(d)) : n \in DirNames, d \in SubmissionDirs}
    \cup {Entry(<<"spaceship", "_", "a">>, TRUE, None),
          Entry(<<"notes.txt">>, FALSE, None),
          SubmissionFileEntry(<<"digits", "_", "a">>)}

\* What iterdir() of a run-group directory can give: no entry, one entry, or
\* two subdirectories of one competition, in either order.
SameCompetition ==
    {p \in DirNames \X DirNames : p[1] # p[2] /\ comp_name(p[1]) = comp_name(p[2])}

GradeListings ==
    {<<>>} \cup {<<e>> : e \in Entries}
    \cup {<<Entry(p[1], TRUE, Some(d1)), Entry(p[2], TRUE, Some(d2))>> :
            p \in SameCompetition, d1 \in OneAnalysis, d2 \in OneAnalysis}

\* Lines 261-281: every discovered run-group is listed, the grades of its
\* submissions are merged and written to technique_grades.json of the first
\* run-group, then the record is completed.  L: the listings iterdir() can give.
tt_complete(r, L) ==
    /\ pc[r] = "tt_complete"
    /\ \E iterdir \in [{local[r].all_run_groups[k] : k \in DOMAIN local[r].all_run_groups} -> L] :
          LET main_run_group == local[r].run_group[1]
              entries == walk(local[r].all_run_groups, iterdir)
              all_grades == merge_grades(entries, tasks_of(r), Len(entries))
          IN  /\ walked' = [walked EXCEPT ![r] = entries]
              /\ technique_grades' =
                    dict_update(technique_grades, (main_run_group :> all_grades))
              /\ _RUN_STATE' = _update(_RUN_STATE, r, completed_fields(main_run_group))
    /\ pc' = [pc EXCEPT ![r] = "done"]
    /\ local' = [local EXCEPT ![r] = NoLocal]
    /\ UNCHANGED <<runs_exists, dirs, invoked>>
    /\ UNCHANGED <<posted, response, now, waiter, call, _STATE_LOCK, threads, history>>

\* ------------------------------------------------------------------ clock

\* time.time() is the wall clock: it moves on between two readings ...
tick ==
    /\ now < MaxTime
    /\ now' = now + 1
    /\ UNCHANGED <<_RUN_STATE, pc, local, runs_exists, dirs, invoked, posted,
                   response, technique_grades, walked, waiter, call,
                   _STATE_LOCK, threads, history>>

\* ... and it can be set back.
clock_set_back ==
    /\ \E t \in 0..(now - 1) : now' = t
    /\ UNCHANGED <<_RUN_STATE, pc, local, runs_exists, dirs, invoked, posted,
                   response, technique_grades, walked, waiter, call,
                   _STATE_LOCK, threads, history>>

\* ------------------------------------------------------------ file names

\* A file name is a sequence of tokens: words, "_" and, last, an extension.
\* str.lower() on a token.
lower(tok) ==
    CASE tok = "SUBMISSION" -> "submission"
      [] tok = "METADATA" -> "metadata"
      [] tok = "LOGS" -> "logs"
      [] tok = ".CSV" -> ".csv"
      [] tok = ".LOG" -> ".log"
      [] OTHER -> tok

Extensions == {".csv", ".jsonl", ".json", ".log", ".py", ".txt", ".CSV", ".LOG"}

\* Path.suffix: the extension as written; a name that is only an extension
\* (".log") has none.
suffix(name) ==
    IF Len(name) > 1 /\ name[Len(name)] \in Extensions
    THEN name[Len(name)] ELSE ""

\* `word in name` for name = p.name.lower().
name_has(name, word) == \E i \in 1..Len(name) : lower(name[i]) = word

\* p.name.lower().endswith(ext)
name_endswith(name, ext) == lower(name[Len(name)]) = ext

\* A file below a run-group directory: the directories from there down to it,
\* and its name.  p.parent.name.lower() = x; the run-group directory itself
\* has a name made by the agent tool, none of the names tested.
parent_is(f, x) == f.dir # <<>> /\ lower(f.dir[Len(f.dir)]) = x

\* str(p.relative_to(PROJECT_ROOT))
rel_path(run_group, f) ==
    relative_to(RUNS_DIR \o <<run_group>> \o f.dir \o <<f.name>>, PROJECT_ROOT)

\* A classifier that tries the metadata rule before the grading-report rule.
classify_metadata_first(f) ==
    IF name_has(f.name, "submission") /\ suffix(f.name) \in {".csv", ".jsonl"}
    THEN "submissions"
    ELSE IF name_has(f.name, "metadata") /\ suffix(f.name) = ".json"
    THEN "metadata"
    ELSE IF name_has(f.name, "grading") /\ suffix(f.name) = ".json"
    THEN "grading_reports"
    ELSE IF \/ suffix(f.name) = ".log"
            \/ (name_endswith(f.name, ".log") /\ ~parent_is(f, "logs"))
    THEN "logs"
    ELSE IF \/ parent_is(f, "logs")
            \/ name_has(f.name, "rollout")
            \/ name_has(f.name, "trajectory")
            \/ name_has(f.name, "journal")
    THEN "rollouts"
    ELSE IF \E d \in {"code", "best_solution", "workspaces"} : parent_is(f, d)
    THEN "code"
    ELSE "none"

\* get_artifacts, lines 369-382: the list a file is appended to, if any.
classify(f) ==
    IF name_has(f.name, "submission") /\ suffix(f.name) \in {".csv", ".jsonl"}
    THEN "submissions"
    ELSE IF name_has(f.name, "grading") /\ suffix(f.name) = ".json"
    THEN "grading_reports"
    ELSE IF \/ suffix(f.name) = ".log"
            \/ (name_endswith(f.name, ".log") /\ ~parent_is(f, "logs"))
    THEN "logs"
    ELSE IF name_has(f.name, "metadata") /\ suffix(f.name) = ".json"
    THEN "metadata"
    ELSE IF \/ parent_is(f, "logs")
            \/ name_has(f.name, "rollout")
            \/ name_has(f.name, "trajectory")
            \/ name_has(f.name, "journal")
    THEN "rollouts"
    ELSE IF \E d \in {"code", "best_solution", "workspaces"} : parent_is(f, d)
    THEN "code"
    ELSE "none"

Categories ==
    {"submissions", "grading_reports", "logs", "rollouts", "code", "metadata"}

\* glob("**/*grading*.json"): matched on the name as written.
matches_grading_json(f) ==
    /\ f.name[Len(f.name)] = ".json"
    /\ \E i \in 1..(Len(f.name) - 1) : f.name[i] = "grading"

FileNames ==
    { <<"submission", ".csv">>, <<"submission", ".jsonl">>,
      <<"submission", ".json">>, <<"SUBMISSION", ".csv">>,
      <<"submission", ".CSV">>,
      <<"grading", "_", "report", ".json">>,
      <<"grading", "_", "submission", ".csv">>,
      <<"submission", "_", "grading", ".json">>,
      <<"grading", "_", "metadata", ".json">>,
      <<"grading", ".log">>,
      <<"run", ".log">>, <<"run", ".LOG">>, <<"metadata", ".log">>, <<".log">>,
      <<"metadata", ".json">>, <<"METADATA", ".json">>, <<"metadata", ".txt">>,
      <<"rollout", ".json">>, <<"trajectory", ".txt">>, <<"journal", ".json">>,
      <<"rollout", "_", "metadata", ".json">>,
      <<"solution", ".py">>, <<"notes", ".txt">> }

FileDirs ==
    { <<>>, <<"logs">>, <<"LOGS">>, <<"code">>, <<"best_solution">>,
      <<"workspaces">>, <<"metadata">>, <<"comp", "logs">>, <<"logs", "comp">> }

Files == {[dir |-> d, name |-> n] : d \in FileDirs, n \in FileNames}

\* What rglob("*") can find below a run-group directory: no file, one file,
\* or a grading report next to another file.
Listings ==
    {{}} \cup {{f} : f \in Files}
         \cup {{f, [dir |-> <<>>, name |-> <<"grading", "_", "report", ".json">>]} :
                  f \in Files}

\* --------------------------------------------------------------- handlers

\* The identifiers a request can name: those of uuid4, and one of no record.
RequestIds == RunIds \cup {0}

not_found == [detail |-> "run not found"]

not_completed(rec) == [detail |-> <<"run not completed yet, status=", rec.status>>]

\* The keys of the store in the order of their insertion: fresh_run_id hands
\* out the identifiers in increasing order.
RECURSIVE inserted(_)
inserted(ids) ==
    IF ids = {} THEN <<>>
    ELSE LET first == CHOOSE r \in ids : \A o \in ids : r <= o
         IN  <<first>> \o inserted(ids \ {first})

\* sorted(values, key=created_at, reverse=True): a stable sort, so of the
\* records with the greatest key the first in values comes first.
RECURSIVE sorted_newest_first(_)
sorted_newest_first(values) ==
    IF values = <<>> THEN <<>>
    ELSE LET i == CHOOSE k \in 1..Len(values) :
                    /\ \A j \in 1..Len(values) :
                          values[j].created_at <= values[k].created_at
                    /\ \A j \in 1..(k - 1) :
                          values[j].created_at < values[k].created_at
         IN  <<values[i]>> \o
             sorted_newest_first(SubSeq(values, 1, i - 1)
                                 \o SubSeq(values, i + 1, Len(values)))

\* A listing in the order of insertion.
list_runs_result_unsorted ==
    LET keys == inserted(DOMAIN _RUN_STATE) IN
    [k \in 1..Len(keys) |-> _RUN_STATE[keys[k]]]

\* What list_runs returns in the present state.
list_runs_result ==
    LET keys == inserted(DOMAIN _RUN_STATE) IN
    sorted_newest_first([k \in 1..Len(keys) |-> _RUN_STATE[keys[k]]])

\* GET /runs
list_runs ==
    /\ response' = [request |-> <<"GET", "/runs">>, code |-> 200,
                    body |-> list_runs_result]
    /\ UNCHANGED <<_RUN_STATE, pc, local, runs_exists, dirs, invoked, posted,
                   now, technique_grades, walked, waiter, call,
                   _STATE_LOCK, threads, history>>

\* What get_run answers in the present state.
get_run_response(run_id) ==
    [request |-> <<"GET", "/runs/{run_id}", run_id>>] @@
    (IF run_id \notin DOMAIN _RUN_STATE
     THEN [code |-> 404, body |-> not_found]
     ELSE [code |-> 200, body |-> _RUN_STATE[run_id]])

\* GET /runs/{run_id}
get_run(run_id) ==
    /\ response' = get_run_response(run_id)
    /\ UNCHANGED <<_RUN_STATE, pc, local, runs_exists, dirs, invoked, posted,
                   now, technique_grades, walked, waiter, call,
                   _STATE_LOCK, threads, history>>

\* GET /runs/{run_id}/summary; files is what the glob finds at that time.
get_summary(run_id, files) ==
    /\ response' =
         [request |-> <<"GET", "/runs/{run_id}/summary", run_id>>] @@
         (IF run_id \notin DOMAIN _RUN_STATE
          THEN [code |-> 404, body |-> not_found]
          ELSE LET rec == _RUN_STATE[run_id] IN
               IF rec.status # "completed"
               THEN [code |-> 409, body |-> not_completed(rec)]
               ELSE [code |-> 200,
                     body |-> [run_id |-> run_id,
                               run_group |-> rec.run_group,
                               run_dir |-> rec.run_dir,
                               grading_reports |->
                                   {rel_path(rec.run_group[1], f) :
                                       f \in {g \in files : matches_grading_json(g)}}]])
    /\ UNCHANGED <<_RUN_STATE, pc, local, runs_exists, dirs, invoked, posted,
                   now, technique_grades, walked, waiter, call,
                   _STATE_LOCK, threads, history>>

\* The artifact map: each sorted list of distinct paths is given as their set.
artifact_map(run_id, rec, files) ==
    [k \in {"run_id", "run_group", "run_dir"} \cup Categories |->
        CASE k = "run_id" -> run_id
          [] k = "run_group" -> rec.run_group
          [] k = "run_dir" -> rec.run_dir
          [] OTHER -> {rel_path(rec.run_group[1], f) :
                          f \in {g \in files : classify(g) = k}}]

\* A handler that answers a request for an unfinished run with an empty map.
get_artifacts_returns_partial(run_id, files) ==
    /\ response' =
         [request |-> <<"GET", "/runs/{run_id}/artifacts", run_id>>] @@
         (IF run_id \notin DOMAIN _RUN_STATE
          THEN [code |-> 404, body |-> not_found]
          ELSE LET rec == _RUN_STATE[run_id] IN
               IF rec.status # "completed"
               THEN [code |-> 200, body |-> [c \in Categories |-> {}]]
               ELSE [code |-> 200, body |-> artifact_map(run_id, rec, files)])
    /\ UNCHANGED <<_RUN_STATE, pc, local, runs_exists, dirs, invoked, posted,
                   now, technique_grades, walked, waiter, call,
                   _STATE_LOCK, threads, history>>

\* GET /runs/{run_id}/artifacts; files is what rglob finds at that time (kept
\* with the response as `found`).
get_artifacts(run_id, files) ==
    /\ response' =
         [request |-> <<"GET", "/runs/{run_id}/artifacts", run_id>>] @@
         (IF run_id \notin DOMAIN _RUN_STATE
          THEN [code |-> 404, body |-> not_found]
          ELSE LET rec == _RUN_STATE[run_id] IN
               IF rec.status # "completed"
               THEN [code |-> 409, body |-> not_completed(rec)]
               ELSE [found |-> files, code |-> 200,
                     body |-> artifact_map(run_id, rec, files)])
    /\ UNCHANGED <<_RUN_STATE, pc, local, runs_exists, dirs, invoked, posted,
                   now, technique_grades, walked, waiter, call,
                   _STATE_LOCK, threads, history>>

\* ------------------------------------------------------------ file server

\* The disk GET /files looks at.  Absolute paths are sequences of names from
\* the root.  Under the project root: server.py, and runs/ with the run-group
\* directory g, which holds f.txt and two links that lead out of runs/; next to
\* runs/, a link that leads into it.
DiskDirs == {<<>>, PROJECT_ROOT, RUNS_DIR, RUNS_DIR \o <<"g">>}

DiskFiles == {PROJECT_ROOT \o <<"server.py">>, RUNS_DIR \o <<"g", "f.txt">>}

DiskLinks ==
    (RUNS_DIR \o <<"g", "out">> :> PROJECT_ROOT)
    @@ (RUNS_DIR \o <<"g", "secret">> :> PROJECT_ROOT \o <<"server.py">>)
    @@ (PROJECT_ROOT \o <<"alias">> :> RUNS_DIR \o <<"g">>)

parent(p) == IF p = <<>> THEN <<>> ELSE SubSeq(p, 1, Len(p) - 1)

\* Path.resolve(): from the resolved path cur, the components of rest are
\* followed; ".." goes up, a link is replaced by what it points to, a name that
\* does not exist is kept as it is.
RECURSIVE resolve_from(_, _)
resolve_from(cur, rest) ==
    IF rest = <<>> THEN cur
    ELSE LET c == Head(rest)
             nxt == cur \o <<c>>
         IN  IF c = ".." THEN resolve_from(parent(cur), Tail(rest))
             ELSE IF nxt \in DOMAIN DiskLinks
             THEN resolve_from(DiskLinks[nxt], Tail(rest))
             ELSE resolve_from(nxt, Tail(rest))

resolve(p) == resolve_from(<<>>, p)

\* The lookup the operating system does when a path is opened or tested: as
\* above, but every name on the way must exist and all but the last be
\* directories.  None when the path leads nowhere.
RECURSIVE lookup_from(_, _)
lookup_from(cur, rest) ==
    IF cur \notin DiskDirs \cup DiskFiles THEN None
    ELSE IF rest = <<>> THEN Some(cur)
    ELSE IF cur \notin DiskDirs THEN None
    ELSE LET c == Head(rest)
             nxt == cur \o <<c>>
         IN  IF c = ".." THEN lookup_from(parent(cur), Tail(rest))
             ELSE IF nxt \in DOMAIN DiskLinks
             THEN lookup_from(DiskLinks[nxt], Tail(rest))
             ELSE lookup_from(nxt, Tail(rest))

\* Path.is_file()
is_file(p) ==
    LET found == lookup_from(<<>>, p) IN found # None /\ found[1] \in DiskFiles

\* Path.relative_to(base) raises ValueError unless base is a prefix.
is_relative_to(p, base) ==
    Len(p) >= Len(base) /\ SubSeq(p, 1, Len(base)) = base

\* PROJECT_ROOT / file_path: an absolute file_path replaces the root.
join_root(file_path) ==
    IF file_path.absolute THEN file_path.parts
    ELSE PROJECT_ROOT \o file_path.parts

PathNames ==
    {"project", "runs", "..", "g", "f.txt", "out", "secret", "server.py",
     "alias", "missing"}

RECURSIVE PartsUpTo(_)
PartsUpTo(n) ==
    IF n = 0 THEN {<<>>}
    ELSE LET shorter == PartsUpTo(n - 1)
         IN  shorter \cup {Append(p, c) : p \in shorter, c \in PathNames}

\* The values of the path parameter: relative, or absolute ("/files//...").
RequestPaths ==
    {[absolute |-> a, parts |-> p] :
        a \in BOOLEAN, p \in PartsUpTo(MaxPathLen) \ {<<>>}}

\* A handler that tests the path as written, without resolving it.
download_file_unresolved(file_path) ==
    LET full_path == join_root(file_path) IN
    /\ response' =
         [request |-> <<"GET", "/files/{file_path:path}", file_path>>] @@
         (IF ~is_relative_to(full_path, RUNS_DIR)
          THEN [code |-> 403,
                body |-> [detail |-> "access denied - path must be within runs/"]]
          ELSE IF ~is_file(full_path)
          THEN [code |-> 404, body |-> [detail |-> "file not found"]]
          ELSE [code |-> 200,
                body |-> [file |-> lookup_from(<<>>, full_path)[1],
                          filename |-> full_path[Len(full_path)]]])
    /\ UNCHANGED <<_RUN_STATE, pc, local, runs_exists, dirs, invoked, posted,
                   now, technique_grades, walked, waiter, call,
                   _STATE_LOCK, threads, history>>

\* GET /files/{file_path}: the file sent is the one the path leads to.
download_file(file_path) ==
    LET full_path == join_root(file_path) IN
    /\ response' =
         [request |-> <<"GET", "/files/{file_path:path}", file_path>>] @@
         (IF ~is_relative_to(resolve(full_path), resolve(PROJECT_ROOT \o <<"runs">>))
          THEN [code |-> 403,
                body |-> [detail |-> "access denied - path must be within runs/"]]
          ELSE IF ~is_file(full_path)
          THEN [code |-> 404, body |-> [detail |-> "file not found"]]
          ELSE [code |-> 200,
                body |-> [file |-> lookup_from(<<>>, full_path)[1],
                          filename |-> full_path[Len(full_path)]]])
    /\ UNCHANGED <<_RUN_STATE, pc, local, runs_exists, dirs, invoked, posted,
                   now, technique_grades, walked, waiter, call,
                   _STATE_LOCK, threads, history>>

\* ----------------------------------------------------------------- client

\* The payload Client.run builds: `tasks` is put in only when it is truthy.
Client_payload(lite, technique_tasks, tasks) ==
    LET keys == {"competition_set", "agent_id", "lite", "n_seeds", "n_workers",
                 "retain", "technique_tasks"}
                \cup (IF tasks # None /\ tasks[1] # <<>> THEN {"tasks"} ELSE {})
    IN  [k \in keys |->
            CASE k = "competition_set" -> "low.txt"
              [] k = "agent_id" -> "dummy"
              [] k = "lite" -> lite
              [] k = "n_seeds" -> 1
              [] k = "n_workers" -> 1
              [] k = "retain" -> FALSE
              [] k = "technique_tasks" -> technique_tasks
              [] k = "tasks" -> tasks[1]]

\* Client.run: the payload is posted to /runs.
Client_run(lite, technique_tasks, tasks) ==
    post_runs(Client_payload(lite, technique_tasks, tasks))

\* Client.wait_for_completion, client.py:107-121.  The thread is idle, about to
\* poll, holding a polled record, asleep, or out of the method.
NoWaiter ==
    [pc |-> "idle", run_id |-> 0, timeout |-> 0, start |-> 0, poll_count |-> 0,
     rec |-> None, elapsed |-> 0, seen |-> <<>>, result |-> None, error |-> None]

\* The timeouts a caller passes.
Timeouts == {0, 1}

\* Lines 109-110.
wait_for_completion(run_id, timeout) ==
    /\ waiter.pc = "idle"
    /\ waiter' = [NoWaiter EXCEPT !.pc = "poll", !.run_id = run_id,
                                  !.timeout = timeout, !.start = now]
    /\ UNCHANGED <<_RUN_STATE, pc, local, runs_exists, dirs, invoked, posted,
                   response, now, technique_grades, walked, call,
                   _STATE_LOCK, threads, history>>

\* Lines 112-113 and 60-64: one GET /runs/{run_id}; raise_for_status raises
\* HTTPError on an answer that is not a success.  seen: the statuses polled so
\* far.
wait_poll ==
    /\ waiter.pc = "poll"
    /\ response' = get_run_response(waiter.run_id)
    /\ IF response'.code = 200
       THEN waiter' = [waiter EXCEPT !.pc = "polled",
                                     !.poll_count = @ + 1,
                                     !.rec = Some(response'.body),
                                     !.seen = Append(@, response'.body.status)]
       ELSE waiter' = [waiter EXCEPT !.pc = "raised",
                                     !.poll_count = @ + 1,
                                     !.error = Some("HTTPError")]
    /\ UNCHANGED <<_RUN_STATE, pc, local, runs_exists, dirs, invoked, posted,
                   now, technique_grades, walked, call,
                   _STATE_LOCK, threads, history>>

\* A wait that gives up on the time alone, whatever the record says.
wait_check_timeout_first ==
    /\ waiter.pc = "polled"
    /\ LET elapsed == now - waiter.start IN
       IF elapsed > waiter.timeout
       THEN waiter' = [waiter EXCEPT !.pc = "raised", !.elapsed = elapsed,
                                     !.error = Some("TimeoutError")]
       ELSE IF waiter.rec[1].status \in {"completed", "failed"}
       THEN waiter' = [waiter EXCEPT !.pc = "returned", !.elapsed = elapsed,
                                     !.result = waiter.rec]
       ELSE waiter' = [waiter EXCEPT !.pc = "sleep", !.elapsed = elapsed]
    /\ UNCHANGED <<_RUN_STATE, pc, local, runs_exists, dirs, invoked, posted,
                   response, now, technique_grades, walked, call,
                   _STATE_LOCK, threads, history>>

\* Lines 114-120: the clock is read after the record has arrived.
wait_check ==
    /\ waiter.pc = "polled"
    /\ LET elapsed == now - waiter.start IN
       IF waiter.rec[1].status \in {"completed", "failed"}
       THEN waiter' = [waiter EXCEPT !.pc = "returned", !.elapsed = elapsed,
                                     !.result = waiter.rec]
       ELSE IF elapsed > waiter.timeout
       THEN waiter' = [waiter EXCEPT !.pc = "raised", !.elapsed = elapsed,
                                     !.error = Some("TimeoutError")]
       ELSE waiter' = [waiter EXCEPT !.pc = "sleep", !.elapsed = elapsed]
    /\ UNCHANGED <<_RUN_STATE, pc, local, runs_exists, dirs, invoked, posted,
                   response, now, technique_grades, walked, call,
                   _STATE_LOCK, threads, history>>

\* Line 121, then the next round of the loop; at most MaxPolls rounds.
wait_sleep ==
    /\ waiter.pc = "sleep"
    /\ waiter.poll_count < MaxPolls
    /\ waiter' = [waiter EXCEPT !.pc = "poll"]
    /\ UNCHANGED <<_RUN_STATE, pc, local, runs_exists, dirs, invoked, posted,
                   response, now, technique_grades, walked, call,
                   _STATE_LOCK, threads, history>>

\* ------------------------------------------------------ the store's lock
\* _update, _append_log and the read handlers step by step: each takes
\* _STATE_LOCK, reads the record, and (the writers) puts a new record in its
\* place before the lock is released.

Writers == {"w1", "w2"}
Readers == {"h"}
Threads == Writers \cup Readers

NoThread == [pc |-> "idle", op |-> None, data |-> None, out |-> None, n |-> 0]

\* The calls a worker thread makes on the store, for a record that exists or
\* for one that does not: each thread writes a status of its own, and its n-th
\* log entry is its own.
WriterOps(t) ==
    {[fn |-> "_update", run_id |-> r,
      arg |-> [status |-> IF t = "w1" THEN "running" ELSE "failed"]] :
        r \in {0, 1}}
    \cup {[fn |-> "_append_log", run_id |-> r,
           arg |-> [stage |-> <<t, threads[t].n>>]] : r \in {1, 2}}

\* The reads a handler thread makes.
ReaderOps ==
    {[fn |-> "get_run", run_id |-> r, arg |-> None] : r \in {0, 1}}
    \cup {[fn |-> "list_runs", run_id |-> 0, arg |-> None]}

store_unchanged ==
    UNCHANGED <<pc, local, runs_exists, dirs, invoked, posted, response, now,
                technique_grades, walked, waiter, call>>

\* A thread enters _update, _append_log, get_run or list_runs.
store_call(t, op) ==
    /\ threads[t].pc = "idle"
    /\ threads[t].n < MaxOps
    /\ threads' = [threads EXCEPT ![t] = [NoThread EXCEPT !.pc = "acquire",
                                                          !.op = Some(op),
                                                          !.n = threads[t].n]]
    /\ UNCHANGED <<_RUN_STATE, _STATE_LOCK, history>>
    /\ store_unchanged

\* An entry that does not wait for the lock.
acquire_without_waiting(t) ==
    /\ threads[t].pc = "acquire"
    /\ _STATE_LOCK' = Some(t)
    /\ threads' = [threads EXCEPT ![t].pc = "get"]
    /\ UNCHANGED <<_RUN_STATE, history>>
    /\ store_unchanged

\* `with _STATE_LOCK:` -- the thread goes on when no thread holds the lock.
acquire(t) ==
    /\ threads[t].pc = "acquire"
    /\ _STATE_LOCK = None
    /\ _STATE_LOCK' = Some(t)
    /\ threads' = [threads EXCEPT ![t].pc = "get"]
    /\ UNCHANGED <<_RUN_STATE, history>>
    /\ store_unchanged

\* What the thread takes from the store: _RUN_STATE.get(run_id), or
\* list(_RUN_STATE.values()).
taken(op) ==
    IF op.fn = "list_runs" THEN _RUN_STATE
    ELSE IF op.run_id \in DOMAIN _RUN_STATE
    THEN (op.run_id :> _RUN_STATE[op.run_id])
    ELSE <<>>

\* Lines 87-89, 98-100, 305-307, 312-315: the read under the lock.  A writer
\* that finds no record returns, which releases the lock.  list_runs dumps the
\* records before it leaves the `with` block; get_run leaves it with the
\* record, or with None and then answers 404.
store_get(t) ==
    /\ threads[t].pc = "get"
    /\ LET op == threads[t].op[1] IN
       IF t \in Writers /\ op.run_id \in DOMAIN _RUN_STATE
       THEN /\ threads' = [threads EXCEPT ![t].pc = "put",
                                          ![t].data = Some(taken(op))]
            /\ UNCHANGED _STATE_LOCK
       ELSE /\ _STATE_LOCK' = None
            /\ IF t \in Writers \/ taken(op) = <<>>
               THEN threads' = [threads EXCEPT ![t].pc = "idle", ![t].n = @ + 1]
               ELSE IF op.fn = "list_runs"
               THEN threads' = [threads EXCEPT ![t].pc = "idle", ![t].n = @ + 1,
                                               ![t].data = Some(taken(op)),
                                               ![t].out = Some(taken(op))]
               ELSE threads' = [threads EXCEPT ![t].pc = "serialize",
                                               ![t].data = Some(taken(op))]
    /\ UNCHANGED <<_RUN_STATE, history>>
    /\ store_unchanged

\* The record _update or _append_log builds from the copy it took.
rebuilt(op, data) ==
    IF op.fn = "_update"
    THEN _update(data, op.run_id, op.arg)[op.run_id]
    ELSE _append_log(data, op.run_id, op.arg)[op.run_id]

\* Lines 90-93, 101-104: the new record replaces the old one, and the lock is
\* released.  history keeps every value each record has had and the calls in
\* the order of their writes.
store_put(t) ==
    /\ threads[t].pc = "put"
    /\ LET op == threads[t].op[1]
           rec == rebuilt(op, threads[t].data[1])
       IN  /\ _RUN_STATE' = [_RUN_STATE EXCEPT ![op.run_id] = rec]
           /\ history' = [history EXCEPT
                            !.versions[op.run_id] = Append(@, rec),
                            !.written = Append(@, op)]
    /\ _STATE_LOCK' = None
    /\ threads' = [threads EXCEPT ![t].pc = "idle", ![t].n = @ + 1]
    /\ store_unchanged

\* A reader whose records are the store's own, still changing under it.
held_in_store(t) ==
    [r \in DOMAIN threads[t].data[1] |-> _RUN_STATE[r]]

\* The records a reader holds once it has left the lock: RunRecord objects
\* that no one changes, as every write puts a new object in the store.
held(t) == threads[t].data[1]

\* Line 316: get_run dumps the record after the lock is released, field after
\* field: first the status ...
serialize_status(t) ==
    /\ threads[t].pc = "serialize"
    /\ threads' = [threads EXCEPT
                     ![t].pc = "serialize_rest",
                     ![t].out = Some([r \in DOMAIN held(t) |-> held(t)[r].status])]
    /\ UNCHANGED <<_RUN_STATE, _STATE_LOCK, history>>
    /\ store_unchanged

\* ... then its other fields.
serialize_rest(t) ==
    /\ threads[t].pc = "serialize_rest"
    /\ threads' = [threads EXCEPT
                     ![t].pc = "idle",
                     ![t].n = @ + 1,
                     ![t].out = Some([r \in DOMAIN held(t) |->
                                        [held(t)[r] EXCEPT
                                           !.status = threads[t].out[1][r]]])]
    /\ UNCHANGED <<_RUN_STATE, _STATE_LOCK, history>>
    /\ store_unchanged

\* ---------------------------------------------------------- specification

\* No function is applied on its own.
NoCall == [fn |-> "none", args |-> <<>>, result |-> None]

\* The server after its start, before any request.
Started ==
    /\ _RUN_STATE = <<>>
    /\ pc = [r \in RunIds |-> "idle"]
    /\ local = [r \in RunIds |-> NoLocal]
    /\ runs_exists \in BOOLEAN
    /\ dirs = <<>>
    /\ invoked = [r \in RunIds |-> <<>>]
    /\ posted = <<>>
    /\ response = None
    /\ now = 0
    /\ technique_grades = <<>>
    /\ walked = [r \in RunIds |-> <<>>]
    /\ waiter = NoWaiter
    /\ _STATE_LOCK = None
    /\ threads = [t \in Threads |-> NoThread]
    /\ history = [versions |-> <<>>, written |-> <<>>]

Init == Started /\ call = NoCall

WorkerStep(r, O) ==
    \/ worker_start(r)
    \/ worker_snapshot(r)
    \/ prepare(r, O)
    \/ agent(r, O)
    \/ discover(r)
    \/ make_submission(r, O)
    \/ grade(r, O)
    \/ complete(r)
    \/ tt_read_ids(r)
    \/ tt_loop(r)
    \/ tt_agent(r, O)
    \/ tt_discover(r)
    \/ tt_complete(r, PlainListings)
    \/ worker_except(r)

\* Concurrent runs: each accepted request gets a worker thread of its own.
Next ==
    \/ \E req \in ConcurrentRequests : post_runs(body_of(req))
    \/ \E r \in RunIds : WorkerStep(r, ExitOutcomes)

Spec == Init /\ [][Next]_vars

\* Every started worker thread keeps being scheduled.
FairSpec == Spec /\ \A r \in RunIds : WF_vars(WorkerStep(r, ExitOutcomes))

\* One run on its own, over every request and every command outcome.
SeqNext ==
    \/ \E req \in Requests : _RUN_STATE = <<>> /\ post_runs(body_of(req))
    \/ \E r \in RunIds : WorkerStep(r, Outcomes)

SeqSpec == Init /\ [][SeqNext]_vars

\* One run started through the SDK client, over every use of its
\* technique_tasks and tasks arguments.
ClientNext ==
    \/ \E technique_tasks \in BOOLEAN, tasks \in TaskFields :
          _RUN_STATE = <<>> /\ Client_run(TRUE, technique_tasks, tasks)
    \/ \E r \in RunIds : WorkerStep(r, ExitOutcomes)

ClientSpec == Init /\ [][ClientNext]_vars

\* The steps of a worker that runs the single-task pipeline.
SingleTaskStep(r, O) ==
    \/ worker_start(r)
    \/ worker_snapshot(r)
    \/ prepare(r, O)
    \/ agent(r, O)
    \/ discover(r)
    \/ make_submission(r, O)
    \/ grade(r, O)
    \/ complete(r)
    \/ worker_except(r)

\* Concurrent single-task runs while the clock moves, forward and back.
TimeNext ==
    \/ post_runs(body_of(RunRequest(TRUE, None)))
    \/ \E r \in RunIds : SingleTaskStep(r, ExitOutcomes)
    \/ tick
    \/ clock_set_back

TimeSpec == Init /\ [][TimeNext]_vars

\* The file server, asked for every path.
FilesNext == \E file_path \in RequestPaths : download_file(file_path)

FilesSpec == Init /\ [][FilesNext]_vars

\* The steps of a worker that runs the fan-out pipeline.
FanOutStep(r, O, L) ==
    \/ worker_start(r)
    \/ worker_snapshot(r)
    \/ prepare(r, O)
    \/ tt_read_ids(r)
    \/ tt_loop(r)
    \/ tt_agent(r, O)
    \/ tt_discover(r)
    \/ tt_complete(r, L)
    \/ worker_except(r)

\* One fan-out run over every task list and everything its grading can find in
\* the run-group directories.
GradeNext ==
    \/ \E n \in 1..MaxTasks :
          /\ _RUN_STATE = <<>>
          /\ post_runs(body_of(RunRequest(TRUE, Some(SubSeq(TECHNIQUE_TASKS, 1, n)))))
    \/ \E r \in RunIds : FanOutStep(r, ExitOutcomes, GradeListings)

GradeSpec == Init /\ [][GradeNext]_vars

\* One single-task run and a client that, once the run is accepted, waits for
\* it or for a run that does not exist, while the clock moves on.
WaitNext ==
    \/ _RUN_STATE = <<>> /\ post_runs(body_of(RunRequest(TRUE, None)))
    \/ \E r \in RunIds : SingleTaskStep(r, ExitOutcomes)
    \/ \E run_id \in RequestIds, timeout \in Timeouts :
          _RUN_STATE # <<>> /\ wait_for_completion(run_id, timeout)
    \/ wait_poll
    \/ wait_check
    \/ wait_sleep
    \/ tick

WaitSpec == Init /\ [][WaitNext]_vars

\* The variables of the server, which a function applied on its own leaves
\* alone.
server_vars ==
    <<_RUN_STATE, pc, local, runs_exists, dirs, invoked, posted, response, now,
      technique_grades, walked, waiter, _STATE_LOCK, threads, history>>

\* The texts of up to MaxTextLen characters, of letters and white space.
Chars == {"a", "b", " ", "\n"}

Texts == UNION {[1..n -> Chars] : n \in 0..MaxTextLen}

\* What a submission directory holds of one task: no analysis file, one that
\* cannot be read, or one with a text.
AnalysisStates == {None} \cup {Some(None)} \cup {Some(Some(t)) : t \in Texts}

\* The submission directory with the analysis file of task_id in state st,
\* beside the readable analysis of another task.
submission_with(task_id, st) ==
    (analysis_file("other") :> Some(Words))
    @@ (IF st = None THEN <<>> ELSE (analysis_file(task_id) :> st[1]))

\* grade_technique_task applied to every task and every such directory.
GraderInit ==
    /\ Started
    /\ \E task_id \in GradeTasks, st \in AnalysisStates :
          call = [fn |-> "grade_technique_task",
                  args |-> <<task_id, submission_with(task_id, st)>>,
                  result |-> None]

call_grade_technique_task ==
    /\ call.fn = "grade_technique_task"
    /\ call.result = None
    /\ call' = [call EXCEPT
                  !.result = Some(grade_technique_task(call.args[1], call.args[2]))]
    /\ UNCHANGED server_vars

GraderNext == call_grade_technique_task

GraderSpec == GraderInit /\ [][GraderNext]_vars

\* The code point of a character of a name.
ord == [c \in {"0", "1", "9", "A", "B", "C", "D"} |->
          CASE c = "0" -> 48 [] c = "1" -> 49 [] c = "9" -> 57
            [] c = "A" -> 65 [] c = "B" -> 66 [] c = "C" -> 67 [] c = "D" -> 68]

\* The order sorted() puts two names in: a <= b on strings, character by
\* character on the code points, a prefix before the longer name.
RECURSIVE str_le(_, _)
str_le(a, b) ==
    IF a = <<>> THEN TRUE
    ELSE IF b = <<>> THEN FALSE
    ELSE IF a[1] = b[1] THEN str_le(Tail(a), Tail(b))
    ELSE ord[a[1]] < ord[b[1]]

\* sorted(diff)[0]
sorted_names_first(diff) == CHOOSE d \in diff : \A e \in diff : str_le(d, e)

\* sorted(diff)[-1], the names strings.
sorted_names_last(diff) == CHOOSE d \in diff : \A e \in diff : str_le(e, d)

\* {p.name for p in RUNS_DIR.iterdir() if p.is_dir()}, the runs root given by
\* the is_dir() of each of its entries.
dir_names(entries) == {name \in DOMAIN entries : entries[name]}

\* _discover_new_run_group(before) on a runs root given as a value: none, or
\* its entries.
discover_new_run_group(before, root) ==
    IF root = None
    THEN None
    ELSE LET after == dir_names(root[1])
             diff == after \ before
         IN  IF diff # {} THEN Some(sorted_names_last(diff)) ELSE None

\* The names of the entries of a runs root.
RunNames ==
    {<<"A">>, <<"B">>, <<"C">>, <<"D">>, <<"A", "B">>, <<"9">>, <<"1", "0">>}

\* A runs root: none, or the entries of the directory, each a directory or not.
RootStates ==
    {None} \cup {Some(entries) : entries \in UNION {[S -> BOOLEAN] : S \in SUBSET RunNames}}

\* The snapshots taken before the agent command.
Snapshots == SUBSET {<<"A">>, <<"B">>, <<"D">>, <<"9">>}

\* _discover_new_run_group applied to every snapshot and every such runs root.
DiscoverInit ==
    /\ Started
    /\ \E before \in Snapshots, root \in RootStates :
          call = [fn |-> "_discover_new_run_group",
                  args |-> <<before, root>>,
                  result |-> None]

call_discover_new_run_group ==
    /\ call.fn = "_discover_new_run_group"
    /\ call.result = None
    /\ call' = [call EXCEPT
                  !.result = Some(discover_new_run_group(call.args[1], call.args[2]))]
    /\ UNCHANGED server_vars

DiscoverNext == call_discover_new_run_group

DiscoverSpec == DiscoverInit /\ [][DiscoverNext]_vars

\* argparse on the command line of the prepare sub-command: the options the
\* server can pass.
parse_prepare_args(argv) ==
    LET has(opt) == \E k \in DOMAIN argv : argv[k] = opt
        value(opt) == argv[(CHOOSE k \in DOMAIN argv : argv[k] = opt) + 1]
    IN  [lite |-> has("--lite"),
         all |-> has("--all"),
         list |-> IF has("--list") THEN Some(value("--list")) ELSE None,
         competition_id |->
             IF has("--competition-id") THEN Some(value("--competition-id")) ELSE None]

\* [line.strip() for line in f if line.strip()]
stripped_lines(f) == SelectSeq([k \in DOMAIN f |-> strip(f[k])], LAMBDA l : l # <<>>)

\* The one of --lite, --all, --list the prepare sub-command goes by: the
\* competitions it prepares.  files: the content of each file by name.
prepare_competition_ids(args, files, registry) ==
    IF args.lite THEN registry.lite
    ELSE IF args.all THEN registry.all
    ELSE IF args.list # None THEN stripped_lines(files[args.list[1]])
    ELSE <<args.competition_id[1]>>

\* The lines a competition-set file can have.
LineTexts ==
    {<<>>, <<" ">>, <<"a", "\n">>, <<" ", "b", "\n">>, <<"b">>}

MaxLines == 2

CompetitionSetFiles == UNION {[1..n -> LineTexts] : n \in 0..MaxLines}

\* The registry of competitions: all of them, and those of the lite subset.
Registries ==
    {[all |-> <<<<"a">>, <<"b">>>>, lite |-> l] :
        l \in {<<>>, <<<<"a">>>>, <<<<"a">>, <<"b">>>>}}

\* The prepare command of the server, applied to every competition-set file,
\* both values of the lite flag and every registry.
PrepareInit ==
    /\ Started
    /\ \E lite \in BOOLEAN, f \in CompetitionSetFiles, registry \in Registries :
          call = [fn |-> "prepare",
                  args |-> <<RunRequest(lite, None), f, registry>>,
                  result |-> None]

call_prepare ==
    /\ call.fn = "prepare"
    /\ call.result = None
    /\ LET req == call.args[1]
           files == (req.competition_set :> call.args[2])
           args == parse_prepare_args(prepare_cmd(req))
       IN  call' = [call EXCEPT
                      !.result = Some(prepare_competition_ids(args, files, call.args[3]))]
    /\ UNCHANGED server_vars

PrepareNext == call_prepare

PrepareSpec == PrepareInit /\ [][PrepareNext]_vars

\* The records a store can hold for run r at a time t: accepted at 0, written
\* last at some time up to t, with or without a log entry.
StoredRecords(r, t) ==
    {[RunRecord(r, RunRequest(TRUE, None)) EXCEPT
         !.status = st, !.created_at = 0, !.updated_at = u, !.logs = l] :
       st \in {"queued", "running"}, u \in 0..t,
       l \in {<<>>, <<stage_entry("imbalance")>>}}

\* The stores at time t: no record, one or two.
Stores(t) ==
    {<<>>} \cup {(1 :> a) : a \in StoredRecords(1, t)}
           \cup {(1 :> a) @@ (2 :> b) :
                    a \in StoredRecords(1, t), b \in StoredRecords(2, t)}

\* The field overrides the workers pass to _update.
UpdateKwargs ==
    {[status |-> "running"],
     [status |-> "failed", message |-> Some(Lit("command failed"))],
     completed_fields(1)}

\* The entries the workers pass to _append_log.
LogEntries ==
    {stage_entry("missing"),
     log_entry(prepare_cmd(RunRequest(TRUE, None)),
               [returncode |-> 1, stdout |-> <<>>, stderr |-> DiskFull])}

\* The identifiers the primitives are called with: 0 is never in the store.
CallIds == {0} \cup RunIds

\* _update and _append_log applied to every such store at every time, with
\* every identifier.
PrimitiveInit ==
    /\ now \in 0..MaxTime
    /\ _RUN_STATE \in Stores(now)
    /\ \/ \E run_id \in CallIds, kwargs \in UpdateKwargs :
            call = [fn |-> "_update", args |-> <<run_id, kwargs>>, result |-> None]
       \/ \E run_id \in CallIds, entry \in LogEntries :
            call = [fn |-> "_append_log", args |-> <<run_id, entry>>, result |-> None]
    /\ history = [versions |-> <<>>, written |-> <<>>]
    /\ pc = [r \in RunIds |-> "idle"]
    /\ local = [r \in RunIds |-> NoLocal]
    /\ runs_exists = TRUE
    /\ dirs = <<>>
    /\ invoked = [r \in RunIds |-> <<>>]
    /\ posted = <<>>
    /\ response = None
    /\ technique_grades = <<>>
    /\ walked = [r \in RunIds |-> <<>>]
    /\ waiter = NoWaiter
    /\ _STATE_LOCK = None
    /\ threads = [t \in Threads |-> NoThread]

\* The variables a call of a store primitive leaves alone.
primitive_unchanged ==
    UNCHANGED <<pc, local, runs_exists, dirs, invoked, posted, response, now,
                technique_grades, walked, waiter, _STATE_LOCK, threads, history>>

\* The function returns None in every branch.
call_update ==
    /\ call.fn = "_update"
    /\ call.result = None
    /\ _RUN_STATE' = _update(_RUN_STATE, call.args[1], call.args[2])
    /\ call' = [call EXCEPT !.result = Some("returned")]
    /\ primitive_unchanged

call_append_log ==
    /\ call.fn = "_append_log"
    /\ call.result = None
    /\ _RUN_STATE' = _append_log(_RUN_STATE, call.args[1], call.args[2])
    /\ call' = [call EXCEPT !.result = Some("returned")]
    /\ primitive_unchanged

PrimitiveNext == call_update \/ call_append_log

PrimitiveSpec == PrimitiveInit /\ [][PrimitiveNext]_vars

\* One run of either pipeline while the clock moves on and is never set back.
ClockNext ==
    \/ \E req \in ConcurrentRequests : _RUN_STATE = <<>> /\ post_runs(body_of(req))
    \/ \E r \in RunIds : WorkerStep(r, ExitOutcomes)
    \/ tick

ClockSpec == Init /\ [][ClockNext]_vars

\* Concurrent runs of both pipelines while the clock moves on.
ConcurrentClockNext ==
    \/ \E req \in ConcurrentRequests : post_runs(body_of(req))
    \/ \E r \in RunIds : WorkerStep(r, ExitOutcomes)
    \/ tick

ConcurrentClockSpec == Init /\ [][ConcurrentClockNext]_vars

\* A handler that starts the worker thread before it stores the record.
create_run_starts_first == <<"start", "insert", "return">>

\* The statements of create_run after the record is built, in their order:
\* the insertion under the lock, the start of the thread, the return.
create_run_order == <<"insert", "start", "return">>

\* The statement after the k-th, "returned" after the last.
create_run_at(k) ==
    IF k <= Len(create_run_order) THEN create_run_order[k] ELSE "returned"

\* The variables the handler leaves alone at every statement.
create_run_unchanged ==
    UNCHANGED <<local, runs_exists, dirs, invoked, now, technique_grades, walked,
                waiter, _STATE_LOCK, threads, history>>

\* create_run entered: the identifier is drawn and the record built.  One
\* request is inside the handler at a time.
create_run_begin(body) ==
    /\ call.fn = "create_run" => call.at = "returned"
    /\ DOMAIN _RUN_STATE # RunIds
    /\ call' = [fn |-> "create_run", args |-> <<parse_RunRequest(body)>>,
                result |-> None, run_id |-> fresh_run_id,
                record |-> RunRecord(fresh_run_id, parse_RunRequest(body)),
                k |-> 1, at |-> create_run_at(1)]
    /\ posted' = posted @@ (fresh_run_id :> body)
    /\ UNCHANGED <<_RUN_STATE, pc, response>>
    /\ create_run_unchanged

\* with _STATE_LOCK: _RUN_STATE[run_id] = record
create_run_insert ==
    /\ call.fn = "create_run" /\ call.at = "insert"
    /\ _RUN_STATE' = (call.run_id :> call.record) @@ _RUN_STATE
    /\ call' = [call EXCEPT !.k = @ + 1, !.at = create_run_at(call.k + 1)]
    /\ UNCHANGED <<pc, posted, response>>
    /\ create_run_unchanged

\* threading.Thread(target=_worker, ...).start()
create_run_start_thread ==
    /\ call.fn = "create_run" /\ call.at = "start"
    /\ pc' = [pc EXCEPT ![call.run_id] = "worker"]
    /\ call' = [call EXCEPT !.k = @ + 1, !.at = create_run_at(call.k + 1)]
    /\ UNCHANGED <<_RUN_STATE, posted, response>>
    /\ create_run_unchanged

\* return {"run_id": run_id, "status": "queued"}
create_run_return ==
    /\ call.fn = "create_run" /\ call.at = "return"
    /\ LET body == [run_id |-> call.run_id, status |-> "queued"] IN
       /\ response' = [request |-> <<"POST", "/runs">>, code |-> 200, body |-> body]
       /\ call' = [call EXCEPT !.result = Some(body), !.k = @ + 1,
                               !.at = create_run_at(call.k + 1)]
    /\ UNCHANGED <<_RUN_STATE, pc, posted>>
    /\ create_run_unchanged

\* The intake statement by statement, with the workers running meanwhile.
IntakeNext ==
    \/ \E req \in ConcurrentRequests : create_run_begin(body_of(req))
    \/ create_run_insert
    \/ create_run_start_thread
    \/ create_run_return
    \/ \E r \in RunIds : WorkerStep(r, ExitOutcomes)

IntakeSpec == Init /\ [][IntakeNext]_vars

\* The value of a tool-task grade that is a fault entry: numbers are Some(n),
\* null is None.
error_grade(text) == [score |-> Some(0), passed |-> FALSE, error |-> text]

\* grade_tool_task(task_id, ...): what the call returns, or the fault it ends
\* in.  grader: what the task's directory holds and what its grade.py does.
grade_tool_task(task_id, grader) ==
    CASE grader.kind = "no_file" ->
            [raised |-> None,
             value |-> Some(error_grade(<<"No grader found for ", task_id>>))]
      [] grader.kind = "no_function" ->
            [raised |-> None,
             value |-> Some(error_grade(<<"Grader for ", task_id,
                                          " missing 'grade' function">>))]
      [] grader.kind = "raises" -> [raised |-> Some(grader.text), value |-> None]
      [] grader.kind = "returns" -> [raised |-> None, value |-> Some(grader.value)]

\* Lines 110-112: grade_result.get("passed"), grade_result.get("score", 0) and
\* the formatting of the score with :.2f, which faults on a score that is no
\* number.
log_line_fault(grade_result) ==
    IF "score" \in DOMAIN grade_result /\ grade_result.score = None
    THEN Some(<<"unsupported format string passed to NoneType.__format__">>)
    ELSE None

\* The body of the loop, lines 106-120: the entry stored for one task.
tool_task_entry(task_id, grader) ==
    LET outcome == grade_tool_task(task_id, grader) IN
    IF outcome.raised # None
    THEN error_grade(outcome.raised[1])
    ELSE IF log_line_fault(outcome.value[1]) # None
         THEN error_grade(log_line_fault(outcome.value[1])[1])
         ELSE outcome.value[1]

\* A loop without the try block: the fault of a grader leaves the function.
run_tools_on_grade_unguarded(competition_id, submission_exists, tool_tasks, graders) ==
    LET grades == [competition_id |-> competition_id, tool_task_grades |-> <<>>]
        faulty == {k \in DOMAIN tool_tasks :
                      grade_tool_task(tool_tasks[k], graders[tool_tasks[k]]).raised # None}
    IN  IF ~submission_exists
        THEN [exception |-> None, value |-> Some(grades), written |-> None]
        ELSE IF faulty # {}
        THEN [exception |->
                  grade_tool_task(tool_tasks[CHOOSE k \in faulty : \A j \in faulty : k <= j],
                                  graders[tool_tasks[CHOOSE k \in faulty :
                                                        \A j \in faulty : k <= j]]).raised,
              value |-> None, written |-> None]
        ELSE LET results ==
                   [competition_id |-> competition_id,
                    tool_task_grades |->
                       [t \in {tool_tasks[k] : k \in DOMAIN tool_tasks} |->
                           tool_task_entry(t, graders[t])]]
             IN  [exception |-> None, value |-> Some(results),
                  written |-> Some(results)]

\* run_tools_on_grade: the value returned and what tool_tasks_<competition>
\* .json holds after the call, if it is written.  tool_tasks: list_tool_tasks().
run_tools_on_grade(competition_id, submission_exists, tool_tasks, graders) ==
    IF ~submission_exists
    THEN [exception |-> None,
          value |-> Some([competition_id |-> competition_id,
                          tool_task_grades |-> <<>>]),
          written |-> None]
    ELSE LET results ==
               [competition_id |-> competition_id,
                tool_task_grades |->
                   [t \in {tool_tasks[k] : k \in DOMAIN tool_tasks} |->
                       tool_task_entry(t, graders[t])]]
         IN  [exception |-> None, value |-> Some(results), written |-> Some(results)]

\* The tool tasks a tool_tasks directory can list, sorted.
ToolTaskLists == {<<>>, <<"cv">>, <<"leakage">>, <<"cv", "leakage">>}

\* What a task's directory holds and its grader does: no grade.py, one without
\* a grade function, one that raises, one that returns a grade, with a score
\* that is a number, null or absent.
Graders ==
    {[kind |-> k, text |-> <<>>, value |-> <<>>] : k \in {"no_file", "no_function"}}
    \cup {[kind |-> "raises", text |-> <<"submission.csv not found">>, value |-> <<>>]}
    \cup {[kind |-> "returns", text |-> <<>>, value |-> v] :
             v \in {[score |-> Some(1), passed |-> TRUE],
                    [score |-> Some(0), passed |-> FALSE],
                    [score |-> None, passed |-> TRUE]}}
    \cup {[kind |-> "returns", text |-> <<>>, value |-> [passed |-> TRUE]]}

\* run_tools_on_grade applied to every list of tool tasks, every behaviour of
\* their graders and a submission directory that exists or not.
ToolsInit ==
    /\ Started
    /\ \E submission_exists \in BOOLEAN, tool_tasks \in ToolTaskLists,
          graders \in [{"cv", "leakage"} -> Graders] :
          call = [fn |-> "run_tools_on_grade",
                  args |-> <<"spaceship", submission_exists, tool_tasks, graders>>,
                  result |-> None]

call_run_tools_on_grade ==
    /\ call.fn = "run_tools_on_grade"
    /\ call.result = None
    /\ call' = [call EXCEPT
                  !.result = Some(run_tools_on_grade(call.args[1], call.args[2],
                                                     call.args[3], call.args[4]))]
    /\ UNCHANGED server_vars

ToolsNext == call_run_tools_on_grade

ToolsSpec == ToolsInit /\ [][ToolsNext]_vars

\* The store with the records of two accepted runs, before any worker has
\* written to them.
StoreInit ==
    /\ now = 0
    /\ _RUN_STATE = [r \in RunIds |-> RunRecord(r, RunRequest(TRUE, None))]
    /\ history = [versions |-> [r \in RunIds |-> <<_RUN_STATE[r]>>],
                  written |-> <<>>]
    /\ pc = [r \in RunIds |-> "idle"]
    /\ local = [r \in RunIds |-> NoLocal]
    /\ runs_exists = TRUE
    /\ dirs = <<>>
    /\ invoked = [r \in RunIds |-> <<>>]
    /\ posted = <<>>
    /\ response = None
    /\ technique_grades = <<>>
    /\ walked = [r \in RunIds |-> <<>>]
    /\ waiter = NoWaiter
    /\ call = NoCall
    /\ _STATE_LOCK = None
    /\ threads = [t \in Threads |-> NoThread]

\* Two worker threads and a handler thread on the store, in any interleaving.
StoreNext ==
    \/ \E t \in Writers : \E op \in WriterOps(t) : store_call(t, op)
    \/ \E t \in Readers : \E op \in ReaderOps : store_call(t, op)
    \/ \E t \in Threads : acquire(t)
    \/ \E t \in Threads : store_get(t)
    \/ \E t \in Writers : store_put(t)
    \/ \E t \in Readers : serialize_status(t)
    \/ \E t \in Readers : serialize_rest(t)

StoreSpec == StoreInit /\ [][StoreNext]_vars

\* The task lists a caller can pass: of any length up to MaxTasks, the empty
\* list and lists that name a task twice among them.
TaskLists == UNION {[1..n -> GradeTasks] : n \in 0..MaxTasks}

\* The states of one analysis file that the grades tell apart.
GradedStates ==
    {None, Some(None), Some(Some(<<>>)), Some(Some(<<"a">>)), Some(Some(Words))}

\* A submission directory from the state of each task's analysis file.
submission_of(st) ==
    LET present == {t \in DOMAIN st : st[t] # None} IN
    [f \in {analysis_file(t) : t \in present} |->
        st[CHOOSE t \in present : analysis_file(t) = f][1]]

\* grade_all_tasks applied to every task list and every such directory.
GradeAllInit ==
    /\ Started
    /\ \E tasks \in TaskLists, st \in [GradeTasks -> GradedStates] :
          call = [fn |-> "grade_all_tasks",
                  args |-> <<submission_of(st), tasks>>,
                  result |-> None]

\* The call returns a value or ends in an exception.
call_grade_all_tasks ==
    /\ call.fn = "grade_all_tasks"
    /\ call.result = None
    /\ call' = [call EXCEPT
                  !.result =
                     IF grade_all_tasks_raises(call.args[2])
                     THEN Some([exception |-> Some("ZeroDivisionError"),
                                value |-> None])
                     ELSE Some([exception |-> None,
                                value |-> Some(grade_all_tasks(call.args[1],
                                                               call.args[2]))])]
    /\ UNCHANGED server_vars

GradeAllNext == call_grade_all_tasks

GradeAllSpec == GradeAllInit /\ [][GradeAllNext]_vars

\* One run of either pipeline, and the read endpoints called at any moment.
ApiNext ==
    \/ \E req \in ConcurrentRequests : _RUN_STATE = <<>> /\ post_runs(body_of(req))
    \/ \E r \in RunIds : WorkerStep(r, ExitOutcomes)
    \/ list_runs
    \/ \E run_id \in RequestIds : get_run(run_id)
    \/ \E run_id \in RequestIds, files \in Listings : get_summary(run_id, files)
    \/ \E run_id \in RequestIds, files \in Listings : get_artifacts(run_id, files)

ApiSpec == Init /\ [][ApiNext]_vars

\* ------------------------------------------------------- claim vocabulary

Terminal == {"completed", "failed"}

Known(r) == r \in DOMAIN _RUN_STATE

\* A log entry of _run_cmd, as opposed to a stage marker of the fan-out.
IsCmdEntry(e) == "cmd" \in DOMAIN e

\* The pipeline stage a command line belongs to.
stage_of(cmd) ==
    IF cmd[2] = "run_agent.py" THEN "agent"
    ELSE IF cmd[2] = "experiments/make_submission.py" THEN "make_submission"
    ELSE cmd[4]

StageOrder == <<"prepare", "agent", "make_submission", "grade">>

SingleTask(r) == ~truthy_tasks(_RUN_STATE[r].request)

\* ----------------------------------------------------------------------- C1

StatusStep(a, b) ==
    \/ a = b
    \/ a = "queued" /\ b = "running"
    \/ a = "running" /\ b \in Terminal

\* C1: in every step of every execution of concurrent runs of either pipeline,
\* a record stays in the store and its status either stays as it is or moves
\* queued -> running or running -> completed | failed; a new record is queued.
\* So no record goes from queued to a terminal status, none moves backwards,
\* and none leaves completed or failed.
C1_StatusMonotonic ==
    [][\A r \in RunIds :
         /\ Known(r) =>
              /\ r \in DOMAIN _RUN_STATE'
              /\ StatusStep(_RUN_STATE[r].status, _RUN_STATE'[r].status)
         /\ (~Known(r) /\ r \in DOMAIN _RUN_STATE') =>
              _RUN_STATE'[r].status = "queued"]_vars

\* Two runs overlapped and ended differently, one of them in the fan-out.
C1_Witness ==
    /\ Known(1) /\ Known(2)
    /\ _RUN_STATE[1].status = "completed"
    /\ _RUN_STATE[2].status = "failed"
    /\ ~SingleTask(1)

\* ----------------------------------------------------------------------- C2

\* C2: with every worker thread scheduled fairly (FairSpec) and every external
\* command returning (a command is one step), every record in the store
\* eventually has status completed or failed, whatever the other run does.
C2_EventuallyTerminal ==
    \A r \in RunIds :
        Known(r) ~> (Known(r) /\ _RUN_STATE[r].status \in Terminal)

\* Both runs were accepted and both workers have ended, one after its four
\* stages and one after a fault.
C2_Witness ==
    /\ Known(1) /\ Known(2)
    /\ pc[1] = "done" /\ pc[2] = "done"
    /\ _RUN_STATE[1].status = "failed"
    /\ _RUN_STATE[2].status = "completed"
    /\ Len(_RUN_STATE[2].logs) = 4

\* ----------------------------------------------------------------------- C3

\* C3: whenever a fault is raised in a worker (a nonzero exit, a failed
\* discovery, a missing runs root at the snapshot, an unreadable competition-set
\* file) the worker is in its handler with the record still running; the
\* handler's step sets status failed and message to the fault's text and ends
\* the worker; and no worker ends with its record in a status other than
\* completed or failed.
C3_FaultsCaught ==
    [][\A r \in RunIds :
         /\ (local[r].exc = None /\ local'[r].exc # None) =>
              /\ pc'[r] = "except"
              /\ Known(r) /\ _RUN_STATE'[r].status = "running"
         /\ (pc[r] = "except" /\ pc'[r] # "except") =>
              /\ pc'[r] = "done"
              /\ _RUN_STATE'[r].status = "failed"
              /\ _RUN_STATE'[r].message = Some(local[r].exc[1])
         /\ (pc[r] # "done" /\ pc'[r] = "done") =>
              _RUN_STATE'[r].status \in Terminal]_vars

\* A worker ended on the fault of listing a runs root that does not exist.
C3_Witness ==
    \E r \in DOMAIN _RUN_STATE :
        /\ pc[r] = "done"
        /\ _RUN_STATE[r].status = "failed"
        /\ _RUN_STATE[r].message = Some(ListError)

\* ----------------------------------------------------------------------- C4

LastInvoked(r) == invoked[r][Len(invoked[r])]

\* The last command run r invoked exited nonzero.
StageExit(r) == invoked[r] # <<>> /\ LastInvoked(r).out.returncode # 0

\* C4: in the single-task pipeline the k-th command invoked is the k-th of
\* prepare, agent, make_submission, grade; every command invoked before the
\* last one exited 0 (so nothing is invoked after a nonzero exit); and once the
\* k-th command has exited nonzero the log has exactly k entries, the first k-1
\* with exit code 0 and the last with that nonzero code, and the record ends
\* failed.
C4_FailFast ==
    \A r \in DOMAIN _RUN_STATE :
        SingleTask(r) =>
            LET n == Len(invoked[r])
                logs == _RUN_STATE[r].logs
            IN  /\ n <= 4
                /\ \A k \in 1..n : stage_of(invoked[r][k].cmd) = StageOrder[k]
                /\ \A k \in 1..(n - 1) : invoked[r][k].out.returncode = 0
                /\ StageExit(r) =>
                     /\ pc[r] \in {"except", "done"}
                     /\ Len(logs) = n
                     /\ \A j \in 1..(n - 1) : logs[j].returncode = 0
                     /\ logs[n].returncode = invoked[r][n].out.returncode
                     /\ logs[n].returncode # 0
                     /\ pc[r] = "done" => _RUN_STATE[r].status = "failed"

\* The third stage was the first to exit nonzero, and the worker has ended.
C4_Witness ==
    \E r \in DOMAIN _RUN_STATE :
        /\ SingleTask(r)
        /\ pc[r] = "done"
        /\ _RUN_STATE[r].status = "failed"
        /\ Len(invoked[r]) = 3
        /\ Len(_RUN_STATE[r].logs) = 3
        /\ _RUN_STATE[r].logs[3].returncode # 0

\* ----------------------------------------------------------------------- C5

Generic == Lit("command failed")

\* C5 as stated: the message is the captured stderr, or the captured stdout if
\* stderr is empty, or the generic message if both are empty.
C5_MessageIsCapturedStream ==
    \A r \in DOMAIN _RUN_STATE :
        (_RUN_STATE[r].status = "failed" /\ StageExit(r)) =>
            LET out == LastInvoked(r).out IN
            _RUN_STATE[r].message =
                Some(IF out.stderr # <<>> THEN out.stderr
                     ELSE IF out.stdout # <<>> THEN out.stdout
                     ELSE Generic)

\* C5 (amended): when a command exits nonzero the record ends failed with
\* message equal to the captured stderr stripped of leading and trailing
\* whitespace, or the stripped stdout if the stripped stderr is empty, or
\* "command failed" if both are empty once stripped; a prepare stage exiting 1
\* with stderr "disk full" gives message "disk full" and exactly one log entry,
\* with exit code 1.
C5_MessageIsStrippedStream ==
    \A r \in DOMAIN _RUN_STATE :
        /\ (pc[r] = "done" /\ StageExit(r)) => _RUN_STATE[r].status = "failed"
        /\ (_RUN_STATE[r].status = "failed" /\ StageExit(r)) =>
            LET out == LastInvoked(r).out
                e == strip(out.stderr)
                o == strip(out.stdout)
            IN  /\ _RUN_STATE[r].message =
                       Some(IF e # <<>> THEN e ELSE IF o # <<>> THEN o ELSE Generic)
                /\ (/\ Len(invoked[r]) = 1
                    /\ out.returncode = 1
                    /\ out.stderr = DiskFull) =>
                       /\ _RUN_STATE[r].message = Some(DiskFull)
                       /\ Len(_RUN_STATE[r].logs) = 1
                       /\ _RUN_STATE[r].logs[1].returncode = 1

\* Prepare exited 1 with stderr "disk full" and the record is failed.
C5_Witness ==
    \E r \in DOMAIN _RUN_STATE :
        /\ _RUN_STATE[r].status = "failed"
        /\ Len(invoked[r]) = 1
        /\ stage_of(invoked[r][1].cmd) = "prepare"
        /\ invoked[r][1].out.returncode = 1
        /\ invoked[r][1].out.stderr = DiskFull

\* ----------------------------------------------------------------------- C6

\* C6: in every state run_group and run_dir are both null on a queued, running
\* or failed record and both set on a completed one; and a step changes either
\* of them only on a record that was not completed and is completed after the
\* step, so they are written once, with the status, and stay.  A failed fan-out
\* record carries no run-group although some were discovered before the fault.
C6_RunGroupWithCompleted ==
    /\ [](\A r \in DOMAIN _RUN_STATE :
            LET rec == _RUN_STATE[r] IN
            /\ rec.status \in {"queued", "running", "failed"} =>
                 (rec.run_group = None /\ rec.run_dir = None)
            /\ rec.status = "completed" =>
                 (rec.run_group # None /\ rec.run_dir # None))
    /\ [][\A r \in DOMAIN _RUN_STATE :
            (\/ _RUN_STATE'[r].run_group # _RUN_STATE[r].run_group
             \/ _RUN_STATE'[r].run_dir # _RUN_STATE[r].run_dir) =>
                (/\ _RUN_STATE[r].status # "completed"
                 /\ _RUN_STATE'[r].status = "completed")]_vars

\* A fan-out run whose two agent commands each left a directory, so that its
\* first discovery found one, failed on the second command's exit code.
C6_Witness ==
    \E r \in DOMAIN _RUN_STATE :
        /\ ~SingleTask(r)
        /\ _RUN_STATE[r].status = "failed"
        /\ Len(invoked[r]) = 3
        /\ invoked[r][2].out.returncode = 0
        /\ invoked[r][3].out.returncode # 0
        /\ Cardinality({d \in DOMAIN dirs : dirs[d] = r}) = 2

\* ----------------------------------------------------------------------- C7

\* C7 as stated: the run_group of a completed record is a directory made by
\* that run's own agent command, and no two completed records have the same
\* run_group.
C7_RunGroupPrivate ==
    /\ \A r \in DOMAIN _RUN_STATE :
         _RUN_STATE[r].status = "completed" =>
            /\ _RUN_STATE[r].run_group[1] \in DOMAIN dirs
            /\ dirs[_RUN_STATE[r].run_group[1]] = r
    /\ \A r1, r2 \in DOMAIN _RUN_STATE :
         (/\ r1 # r2
          /\ _RUN_STATE[r1].status = "completed"
          /\ _RUN_STATE[r2].status = "completed") =>
            _RUN_STATE[r1].run_group # _RUN_STATE[r2].run_group

\* ----------------------------------------------------------------------- C8

CmdEntries(r) == SelectSeq(_RUN_STATE[r].logs, IsCmdEntry)

IsMarker(e) == ~IsCmdEntry(e)

Markers(r) == SelectSeq(_RUN_STATE[r].logs, IsMarker)

\* C8 as stated: the log has exactly one entry per command invoked, in order.
C8_OneEntryPerCommand ==
    \A r \in DOMAIN _RUN_STATE :
        LET logs == _RUN_STATE[r].logs IN
        /\ Len(logs) = Len(invoked[r])
        /\ \A k \in 1..Len(logs) :
             /\ IsCmdEntry(logs[k])
             /\ logs[k].cmd = invoked[r][k].cmd

\* C8 (amended): under every interleaving of the two runs, the command entries
\* of a record's log are exactly the commands its own worker invoked, one entry
\* each, in invocation order and with their exit codes, and an agent entry
\* names the run's own temporary file.  In the single-task pipeline the log has
\* no other entry (n stages, n entries).  In the fan-out pipeline the log also
\* has one stage marker per started task, in task order, each after the first
\* entry and directly before that task's agent command entry (if that command
\* was reached).
C8_LogMatchesInvocations ==
    \A r \in DOMAIN _RUN_STATE :
        LET logs == _RUN_STATE[r].logs
            ce == CmdEntries(r)
            mk == Markers(r)
        IN  /\ Len(ce) = Len(invoked[r])
            /\ \A k \in 1..Len(ce) :
                 /\ ce[k].cmd = invoked[r][k].cmd
                 /\ ce[k].returncode = invoked[r][k].out.returncode
                 /\ stage_of(ce[k].cmd) = "agent" => ce[k].cmd[6] = tmp_name(r)
            /\ SingleTask(r) => mk = <<>>
            /\ ~SingleTask(r) =>
                 /\ Len(mk) <= Len(tasks_of(r))
                 /\ \A i \in 1..Len(mk) : mk[i] = stage_entry(tasks_of(r)[i])
                 /\ Len(ce) \in {Len(mk), Len(mk) + 1}
                 /\ \A p \in 1..Len(logs) :
                      IsMarker(logs[p]) =>
                         /\ p > 1
                         /\ IsCmdEntry(logs[p - 1])
                         /\ p < Len(logs) =>
                              /\ IsCmdEntry(logs[p + 1])
                              /\ stage_of(logs[p + 1].cmd) = "agent"
                              /\ logs[p + 1].cmd[12] = logs[p].stage[2]

\* Both workers are under way and have appended to the store in turn: a
\* single-task run with two entries and a fan-out run with a marker.
C8_Witness ==
    /\ Known(1) /\ Known(2)
    /\ pc[1] # "done" /\ pc[2] # "done"
    /\ \E r1, r2 \in RunIds :
         /\ r1 # r2
         /\ SingleTask(r1) /\ Len(_RUN_STATE[r1].logs) = 2
         /\ ~SingleTask(r2) /\ Len(_RUN_STATE[r2].logs) = 3
         /\ IsMarker(_RUN_STATE[r2].logs[2])

\* ----------------------------------------------------------------------- C9

\* The texts of the faults that are not a command's nonzero exit.
OtherFaults ==
    {ListError, ReadError,
     Lit("Could not find new run group after agent run"),
     Lit("Could not find any run groups after technique-task runs")}

\* C9 as stated: the log of a failed record is non-empty and its last entry is
\* the last command the run invoked, which either exited nonzero or is the
\* agent command whose directory was not found.
C9_LastEntryIsFailingCommand ==
    \A r \in DOMAIN _RUN_STATE :
        _RUN_STATE[r].status = "failed" =>
            LET logs == _RUN_STATE[r].logs IN
            /\ logs # <<>>
            /\ IsCmdEntry(logs[Len(logs)])
            /\ logs[Len(logs)].cmd = LastInvoked(r).cmd
            /\ \/ logs[Len(logs)].returncode # 0
               \/ stage_of(logs[Len(logs)].cmd) = "agent"

\* C9 (amended): when a run failed because a command exited nonzero, its log is
\* non-empty, the last entry is that command with its nonzero exit code, every
\* earlier command entry has exit code 0, and message is one of that entry's
\* stripped streams or the generic text.  When it failed for another reason
\* (snapshot fault, unreadable competition-set file, no directory discovered)
\* the log holds only the commands that ran before the fault, all with exit
\* code 0, and only message tells the reason.
C9_LogShowsCommandsRun ==
    \A r \in DOMAIN _RUN_STATE :
        _RUN_STATE[r].status = "failed" =>
            LET logs == _RUN_STATE[r].logs
                ce == CmdEntries(r)
                n == Len(logs)
            IN  IF StageExit(r)
                THEN /\ logs # <<>>
                     /\ IsCmdEntry(logs[n])
                     /\ logs[n].cmd = LastInvoked(r).cmd
                     /\ logs[n].returncode = LastInvoked(r).out.returncode
                     /\ logs[n].returncode # 0
                     /\ \A k \in 1..(Len(ce) - 1) : ce[k].returncode = 0
                     /\ _RUN_STATE[r].message \in
                            {Some(strip(LastInvoked(r).out.stderr)),
                             Some(strip(LastInvoked(r).out.stdout)), Some(Generic)}
                ELSE /\ \A k \in 1..Len(ce) : ce[k].returncode = 0
                     /\ Len(ce) = Len(invoked[r])
                     /\ _RUN_STATE[r].message \in {Some(m) : m \in OtherFaults}

\* A run failed at its second command: two entries, the last one nonzero.
C9_Witness ==
    \E r \in DOMAIN _RUN_STATE :
        /\ _RUN_STATE[r].status = "failed"
        /\ Len(_RUN_STATE[r].logs) = 2
        /\ _RUN_STATE[r].logs[1].returncode = 0
        /\ _RUN_STATE[r].logs[2].returncode # 0
        /\ stage_of(_RUN_STATE[r].logs[2].cmd) = "agent"

\* ---------------------------------------------------------------------- C10

\* C10: a completed single-task record has exactly four log entries, in the
\* order prepare, agent, make_submission, grade, each with exit code 0; its
\* run_group is a directory of the runs root, the one its submission and grading
\* commands worked on, and its run_dir is that directory relative to the project
\* root, runs/<run_group>.
C10_CompletedSingleTask ==
    \A r \in DOMAIN _RUN_STATE :
        (SingleTask(r) /\ _RUN_STATE[r].status = "completed") =>
            LET logs == _RUN_STATE[r].logs
                rec == _RUN_STATE[r]
            IN  /\ Len(logs) = 4
                /\ \A k \in 1..4 :
                     /\ IsCmdEntry(logs[k])
                     /\ stage_of(logs[k].cmd) = StageOrder[k]
                     /\ logs[k].returncode = 0
                /\ rec.run_group # None
                /\ rec.run_group[1] \in DOMAIN dirs
                /\ rec.run_dir = Some(<<"runs", rec.run_group[1]>>)
                /\ logs[3].cmd = make_sub_cmd(rec.run_group[1])
                /\ logs[4].cmd = grade_cmd(rec.request, rec.run_group[1])

\* A single-task run completed, with captured output on one of its entries.
C10_Witness ==
    \E r \in DOMAIN _RUN_STATE :
        /\ SingleTask(r)
        /\ _RUN_STATE[r].status = "completed"
        /\ _RUN_STATE[r].logs[2].stdout # <<>>

\* ---------------------------------------------------------------------- C11

\* Where a worker stands when it is inside one of the two pipelines, after the
\* prepare command both begin with.
FanOutPcs == {"tt_read_ids", "tt_loop", "tt_agent", "tt_discover", "tt_complete"}

SinglePcs == {"agent", "discover", "make_submission", "grade", "complete"}

\* The agent command line carries the option that names a technique task.
HasTechniqueTask(cmd) ==
    /\ stage_of(cmd) = "agent"
    /\ Len(cmd) >= 12
    /\ cmd[11] = "--technique-task"

NonEmptyTaskList(r) ==
    /\ _RUN_STATE[r].request.tasks # None
    /\ Len(_RUN_STATE[r].request.tasks[1]) > 0

\* C11: a worker is inside the fan-out pipeline only for a request whose task
\* list is non-empty and inside the four-stage pipeline only for one whose list
\* is absent or empty; after prepare, every command of a request with a
\* non-empty list is a technique-task agent command and every command of the
\* others is the next of the four stages without a technique task; stage
\* markers are logged only for a non-empty list; and a completed run has run
\* the commands of exactly one pipeline (1 + one per task, or four).
C11_RoutedByTaskList ==
    \A r \in DOMAIN _RUN_STATE :
        LET cmds == invoked[r] IN
        /\ pc[r] \in FanOutPcs => NonEmptyTaskList(r)
        /\ pc[r] \in SinglePcs => ~NonEmptyTaskList(r)
        /\ Markers(r) # <<>> => NonEmptyTaskList(r)
        /\ \A k \in 2..Len(cmds) :
             IF NonEmptyTaskList(r)
             THEN /\ stage_of(cmds[k].cmd) = "agent"
                  /\ HasTechniqueTask(cmds[k].cmd)
                  /\ cmds[k].cmd[12] = _RUN_STATE[r].request.tasks[1][k - 1]
             ELSE /\ k <= 4
                  /\ stage_of(cmds[k].cmd) = StageOrder[k]
                  /\ ~HasTechniqueTask(cmds[k].cmd)
        /\ _RUN_STATE[r].status = "completed" =>
             Len(cmds) = IF NonEmptyTaskList(r)
                         THEN 1 + Len(_RUN_STATE[r].request.tasks[1])
                         ELSE 4

\* A request with an empty task list completed through the four stages.
C11_Witness ==
    \E r \in DOMAIN _RUN_STATE :
        /\ _RUN_STATE[r].request.tasks = Some(<<>>)
        /\ _RUN_STATE[r].status = "completed"
        /\ Len(invoked[r]) = 4

\* ---------------------------------------------------------------------- C12

\* C12 as stated: a run started by Client.run with technique_tasks=True is
\* executed by the fan-out pipeline, over all technique tasks when no tasks
\* were given, and a run started with technique_tasks=False is not (its tasks
\* argument is not used).
C12_FlagSelectsPipeline ==
    \A r \in DOMAIN posted :
        "technique_tasks" \in DOMAIN posted[r] =>
            IF posted[r].technique_tasks
            THEN /\ pc[r] \notin SinglePcs
                 /\ (pc[r] \in FanOutPcs /\ "tasks" \notin DOMAIN posted[r]) =>
                        tasks_of(r) = TECHNIQUE_TASKS
            ELSE pc[r] \notin FanOutPcs

\* ---------------------------------------------------------------------- C13

\* The command behind the k-th entry of run r's log, when that is a command
\* entry: its place among the command entries is its place in invoked[r].
InvokedFor(r, k) ==
    invoked[r][Len(SelectSeq(SubSeq(_RUN_STATE[r].logs, 1, k), IsCmdEntry))]

\* t is the last TailLen characters of s, or the whole of s when s is shorter.
IsTailOf(t, s) ==
    /\ Len(t) = IF Len(s) <= TailLen THEN Len(s) ELSE TailLen
    /\ t = SubSeq(s, Len(s) - Len(t) + 1, Len(s))

\* C13 as stated: every log entry has the command, the exit code and the two
\* captured streams, each cut to its last 2000 characters.
C13_EveryEntryIsCommandResult ==
    \A r \in DOMAIN _RUN_STATE :
        \A k \in 1..Len(_RUN_STATE[r].logs) :
            LET e == _RUN_STATE[r].logs[k] IN
            /\ {"cmd", "returncode", "stdout", "stderr"} \subseteq DOMAIN e
            /\ IsTailOf(e.stdout, InvokedFor(r, k).out.stdout)
            /\ IsTailOf(e.stderr, InvokedFor(r, k).out.stderr)

\* C13 (amended): every log entry written for a command has exactly the fields
\* cmd, returncode, stdout and stderr: the command invoked, its exit code, and
\* each captured stream with leading and trailing whitespace removed and then
\* cut to its last 2000 characters.  The only other entries are the stage
\* markers of the fan-out pipeline, which have the single field stage and no
\* command or exit code; the single-task pipeline logs none.
C13_EntryShape ==
    \A r \in DOMAIN _RUN_STATE :
        \A k \in 1..Len(_RUN_STATE[r].logs) :
            LET e == _RUN_STATE[r].logs[k] IN
            IF "cmd" \in DOMAIN e
            THEN /\ DOMAIN e = {"cmd", "returncode", "stdout", "stderr"}
                 /\ e.cmd = InvokedFor(r, k).cmd
                 /\ e.returncode = InvokedFor(r, k).out.returncode
                 /\ IsTailOf(e.stdout, strip(InvokedFor(r, k).out.stdout))
                 /\ IsTailOf(e.stderr, strip(InvokedFor(r, k).out.stderr))
                 /\ Len(e.stdout) <= TailLen /\ Len(e.stderr) <= TailLen
            ELSE /\ DOMAIN e = {"stage"}
                 /\ NonEmptyTaskList(r)

\* A fan-out log with a marker and, after it, the entry of a command whose
\* stdout was longer than the tail kept.
C13_Witness ==
    \E r \in DOMAIN _RUN_STATE :
        \E k \in 2..Len(_RUN_STATE[r].logs) :
            /\ IsMarker(_RUN_STATE[r].logs[k - 1])
            /\ IsCmdEntry(_RUN_STATE[r].logs[k])
            /\ Len(_RUN_STATE[r].logs[k].stdout) = TailLen
            /\ Len(InvokedFor(r, k).out.stdout) > TailLen

\* ---------------------------------------------------------------------- C14

ResultEndpoints == {"/runs/{run_id}/summary", "/runs/{run_id}/artifacts"}

\* C14: whenever GET /runs/{id}/summary or GET /runs/{id}/artifacts is served,
\* the response is 404 if no record has that id, 409 with only an error detail
\* (no artifact map, not even an empty one) if the record's status is queued,
\* running or failed at that moment, and otherwise, the status being completed
\* at that moment, 200 with the result for that record.
C14_ResultOnlyWhenCompleted ==
    [][(response' # response /\ response'.request[2] \in ResultEndpoints) =>
          LET run_id == response'.request[3] IN
          IF run_id \notin DOMAIN _RUN_STATE
          THEN response'.code = 404 /\ response'.body = not_found
          ELSE IF _RUN_STATE[run_id].status \in {"queued", "running", "failed"}
          THEN /\ response'.code = 409
               /\ DOMAIN response'.body = {"detail"}
          ELSE /\ _RUN_STATE[run_id].status = "completed"
               /\ response'.code = 200
               /\ response'.body.run_id = run_id
               /\ response'.body.run_group = _RUN_STATE[run_id].run_group]_vars

\* Scenario D: the artifacts of a record in status running were asked for and
\* the answer was 409.
C14_Witness ==
    /\ response # None
    /\ response.request = <<"GET", "/runs/{run_id}/artifacts", 1>>
    /\ response.code = 409
    /\ Known(1)
    /\ _RUN_STATE[1].status = "running"
    /\ _RUN_STATE[1].logs # <<>>

\* ---------------------------------------------------------------------- C15

\* C15: a step that serves POST /runs adds exactly one record, under an
\* identifier no record had, with that identifier as its run_id, status queued
\* and an empty log; leaves every other record as it was; starts the worker of
\* the new record and touches no other worker; runs no command; and returns
\* {run_id, status: queued} for the new identifier.  In every state each record
\* has one worker and its key as run_id, and a new run is accepted whatever the
\* workers already running are doing, as long as an identifier is left.
C15_CreateAddsOneQueuedRecord ==
    /\ [](/\ \A r \in RunIds : (pc[r] # "idle") <=> Known(r)
          /\ \A r \in DOMAIN _RUN_STATE : _RUN_STATE[r].run_id = r
          /\ DOMAIN _RUN_STATE # RunIds =>
                \A req \in ConcurrentRequests : ENABLED post_runs(body_of(req)))
    /\ [][posted' # posted =>
            \E run_id \in RunIds \ DOMAIN _RUN_STATE :
                /\ DOMAIN _RUN_STATE' = DOMAIN _RUN_STATE \cup {run_id}
                /\ DOMAIN posted' = DOMAIN posted \cup {run_id}
                /\ _RUN_STATE'[run_id].run_id = run_id
                /\ _RUN_STATE'[run_id].status = "queued"
                /\ _RUN_STATE'[run_id].logs = <<>>
                /\ _RUN_STATE'[run_id].request = parse_RunRequest(posted'[run_id])
                /\ \A o \in DOMAIN _RUN_STATE : _RUN_STATE'[o] = _RUN_STATE[o]
                /\ pc[run_id] = "idle" /\ pc'[run_id] = "worker"
                /\ \A o \in RunIds \ {run_id} : pc'[o] = pc[o]
                /\ invoked' = invoked
                /\ response'.code = 200
                /\ response'.body = [run_id |-> run_id, status |-> "queued"]]_vars

\* The second run was accepted, and is still queued, while the worker of the
\* first is in the middle of its pipeline.
C15_Witness ==
    /\ Known(1) /\ Known(2)
    /\ _RUN_STATE[1].status = "running"
    /\ Len(_RUN_STATE[1].logs) >= 2
    /\ _RUN_STATE[2].status = "queued"
    /\ pc[2] = "worker"
    /\ response.body = [run_id |-> 2, status |-> "queued"]

\* ---------------------------------------------------------------------- C16

\* C16: in every state, whatever the clock did between the insertions and the
\* updates, the listing has one element per record of the store, each equal to
\* the record of its run_id, no record twice, and the created_at of an element
\* is never less than that of an element after it.
C16_ListedNewestFirst ==
    LET listed == list_runs_result IN
    /\ Len(listed) = Cardinality(DOMAIN _RUN_STATE)
    /\ {listed[i].run_id : i \in 1..Len(listed)} = DOMAIN _RUN_STATE
    /\ \A i \in 1..Len(listed) : listed[i] = _RUN_STATE[listed[i].run_id]
    /\ \A i, j \in 1..Len(listed) :
         i < j => listed[i].created_at >= listed[j].created_at

\* The record inserted second is the newer one and is listed first, although
\* the record inserted first was the last to be updated.
C16_Witness ==
    /\ Known(1) /\ Known(2)
    /\ _RUN_STATE[1].created_at < _RUN_STATE[2].created_at
    /\ _RUN_STATE[1].updated_at > _RUN_STATE[2].updated_at
    /\ list_runs_result[1].run_id = 2

\* ---------------------------------------------------------------------- C17

\* The rules in their fixed order, and what each asks of a file.
RuleOrder ==
    <<"submissions", "grading_reports", "logs", "metadata", "rollouts", "code">>

rule_matches(k, f) ==
    CASE k = 1 -> name_has(f.name, "submission")
                  /\ suffix(f.name) \in {".csv", ".jsonl"}
      [] k = 2 -> name_has(f.name, "grading") /\ suffix(f.name) = ".json"
      [] k = 3 -> \/ suffix(f.name) = ".log"
                  \/ name_endswith(f.name, ".log") /\ ~parent_is(f, "logs")
      [] k = 4 -> name_has(f.name, "metadata") /\ suffix(f.name) = ".json"
      [] k = 5 -> \/ parent_is(f, "logs")
                  \/ \E w \in {"rollout", "trajectory", "journal"} :
                        name_has(f.name, w)
      [] k = 6 -> \E d \in {"code", "best_solution", "workspaces"} :
                        parent_is(f, d)

GradingReport == <<"grading", "_", "report", ".json">>

\* C17: in every artifact map returned, a file found below the run directory
\* is listed under the category of the first rule it matches, in the order
\* submissions, grading reports, logs, metadata, rollouts, code, and under no
\* other; a file that matches no rule is listed nowhere; nothing is listed that
\* was not found; and grading_report.json, in whatever directory, is listed
\* under grading reports only.
C17_FirstMatchWins ==
    (/\ response # None
     /\ response.request[2] = "/runs/{run_id}/artifacts"
     /\ response.code = 200) =>
        LET run_group == response.body.run_group[1]
            listed_in(f) == {c \in Categories :
                                rel_path(run_group, f) \in response.body[c]}
            matching(f) == {k \in 1..6 : rule_matches(k, f)}
        IN  /\ \A f \in response.found :
                 /\ Cardinality(listed_in(f)) <= 1
                 /\ matching(f) = {} => listed_in(f) = {}
                 /\ \A k \in matching(f) :
                      (\A j \in matching(f) : k <= j) =>
                          listed_in(f) = {RuleOrder[k]}
                 /\ f.name = GradingReport => listed_in(f) = {"grading_reports"}
            /\ \A c \in Categories :
                 response.body[c] \subseteq
                     {rel_path(run_group, f) : f \in response.found}

\* An artifact map for a directory metadata/ that holds grading_metadata.json,
\* which matches the grading-report rule and the metadata rule, next to a
\* grading_report.json.
C17_Witness ==
    /\ response # None
    /\ response.request[2] = "/runs/{run_id}/artifacts"
    /\ response.code = 200
    /\ [dir |-> <<"metadata">>, name |-> <<"grading", "_", "metadata", ".json">>]
          \in response.found
    /\ Cardinality(response.body.grading_reports) = 2
    /\ response.body.metadata = {}

\* ---------------------------------------------------------------------- C18

Asked == response.request[3]

\* C18: every answer of GET /files is 403 when the path asked for, resolved,
\* lies outside the runs root, whether or not it leads to a file; 404 when it
\* lies under the runs root and does not lead to an existing regular file; and
\* otherwise 200 with a regular file whose real location is under the runs
\* root.
C18_NoFileOutsideRuns ==
    (response # None /\ response.request[2] = "/files/{file_path:path}") =>
        LET full_path == join_root(Asked)
            inside == is_relative_to(resolve(full_path), RUNS_DIR)
            target == lookup_from(<<>>, full_path)
        IN  /\ ~inside => response.code = 403
            /\ (inside /\ (target = None \/ target[1] \notin DiskFiles)) =>
                   response.code = 404
            /\ response.code = 200 =>
                   /\ target # None
                   /\ response.body.file = target[1]
                   /\ target[1] \in DiskFiles
                   /\ is_relative_to(target[1], RUNS_DIR)
            /\ response.code \in {200, 403, 404}

\* runs/../server.py, which leaves the runs root through ".." and leads to an
\* existing file, was asked for and refused.
C18_Witness ==
    /\ response # None
    /\ response.request[2] = "/files/{file_path:path}"
    /\ Asked = [absolute |-> FALSE, parts |-> <<"runs", "..", "server.py">>]
    /\ is_file(join_root(Asked))
    /\ response.code = 403

\* ---------------------------------------------------------------------- C19

\* Every command of the fan-out run r, prepare and one agent run per task, has
\* been invoked and has exited 0, and the worker is through.
AllTasksRan(r) ==
    /\ NonEmptyTaskList(r)
    /\ pc[r] = "done"
    /\ Len(invoked[r]) = 1 + Len(tasks_of(r))
    /\ \A k \in 1..Len(invoked[r]) : invoked[r][k].out.returncode = 0

Least(S) == CHOOSE x \in S : \A y \in S : x <= y

Graded(r) ==
    /\ r \in DOMAIN _RUN_STATE
    /\ pc[r] = "done"
    /\ _RUN_STATE[r].status = "completed"
    /\ NonEmptyTaskList(r)

\* The artifact of run r: technique_grades.json of its run-group.
Artifact(r) == technique_grades[_RUN_STATE[r].run_group[1]]

\* Entry k of the walk was graded.
WasGraded(r, k) == walked[r][k].is_dir /\ walked[r][k].submission # None

\* Entry j, graded after entry k, is of the same competition and has the
\* analysis file of task t.
Regraded(r, k, t) ==
    \E j \in (k + 1)..Len(walked[r]) :
        /\ WasGraded(r, j)
        /\ comp_name(walked[r][j].name) = comp_name(walked[r][k].name)
        /\ analysis_file(t) \in DOMAIN walked[r][j].submission[1]

\* C20: in the artifact of a finished fan-out run, a task result that a graded
\* subdirectory recorded for its competition is still there, unless a
\* subdirectory of the same competition graded later holds an analysis of the
\* same task: grading a later subdirectory merges into the earlier results
\* and does not replace them.
C20_LaterMergedNotReplacing ==
    \A r \in RunIds : Graded(r) =>
        \A k \in DOMAIN walked[r] : WasGraded(r, k) =>
            LET comp == comp_name(walked[r][k].name) IN
            /\ comp \in DOMAIN Artifact(r)
            /\ \A n \in DOMAIN tasks_of(r) :
                  LET t == tasks_of(r)[n] IN
                  \/ Regraded(r, k, t)
                  \/ /\ t \in DOMAIN Artifact(r)[comp].tasks
                     /\ Artifact(r)[comp].tasks[t]
                           = grade_technique_task(t, walked[r][k].submission[1])

\* The run the fan-out is made for: each task's agent run leaves its own
\* run-group with the analysis of that task alone, and the artifact reports the
\* first task's analysis as not found.
C20_FirstTaskResultLost ==
    \E r \in RunIds :
        /\ Graded(r)
        /\ tasks_of(r) = <<"imbalance", "missing">>
        /\ Len(walked[r]) = 2
        /\ walked[r][1].rg # walked[r][2].rg
        /\ walked[r][1].submission = Some((analysis_file("imbalance") :> Some(Words)))
        /\ walked[r][2].submission = Some((analysis_file("missing") :> Some(Words)))
        /\ comp_name(walked[r][1].name) = comp_name(walked[r][2].name)
        /\ ~Artifact(r)[comp_name(walked[r][1].name)].tasks["imbalance"].passed

\* ------------------------------------------------------------------- C21

\* The competition identifiers of the entries of the walk that satisfy P.
CompetitionsOf(r, P(_)) ==
    {comp_name(walked[r][k].name) : k \in {j \in DOMAIN walked[r] : P(walked[r][j])}}

HasSubmissionDir(e) == e.is_dir /\ e.submission # None /\ e.submission_is_dir
HasSubmissionPath(e) == e.is_dir /\ e.submission # None

\* C21 as stated: the top-level keys of the artifact of a finished fan-out run
\* are exactly the parts before the first "_" of the names of the
\* subdirectories, of all its run-groups, that contain a submission
\* subdirectory; none of them is a technique-task identifier.
C21_KeysAreCompetitionsWithSubmissionDir ==
    \A r \in RunIds : Graded(r) =>
        /\ DOMAIN Artifact(r) = CompetitionsOf(r, HasSubmissionDir)
        /\ \A t \in GradeTasks : <<t>> \notin DOMAIN Artifact(r)

\* C21 (amended): the keys are the parts before the first "_" of the names of
\* the subdirectories in which a path named submission exists, a directory or
\* a plain file; a subdirectory without such a path, and an entry that is not
\* a directory, give no key; none of the keys is a technique-task identifier.
C21_KeysAreCompetitionsWithSubmissionPath ==
    \A r \in RunIds : Graded(r) =>
        /\ DOMAIN Artifact(r) = CompetitionsOf(r, HasSubmissionPath)
        /\ \A t \in GradeTasks : <<t>> \notin DOMAIN Artifact(r)

\* Two run-groups were graded; one holds a subdirectory without a submission,
\* the other a subdirectory with one, and the artifact has the one key.
C21_Witness ==
    \E r \in RunIds :
        /\ Graded(r)
        /\ Len(walked[r]) = 2
        /\ walked[r][1].rg # walked[r][2].rg
        /\ ~HasSubmissionPath(walked[r][1])
        /\ walked[r][1].is_dir
        /\ HasSubmissionDir(walked[r][2])
        /\ DOMAIN Artifact(r) = {<<"titanic">>}

\* ------------------------------------------------------------------- C22

\* The waiter has polled n times and only the last poll saw a terminal status.
FirstTerminalAt(n) ==
    /\ n >= 1
    /\ Len(waiter.seen) = n
    /\ waiter.seen[n] \in Terminal
    /\ \A k \in 1..(n - 1) : waiter.seen[k] \notin Terminal

\* The worker of the run waited for can take a step whenever it has one left.
WorkerNotStopped ==
    \A r \in RunIds :
        pc[r] \notin {"idle", "done"} => ENABLED SingleTaskStep(r, ExitOutcomes)

\* A step of the waiter leaves the store, the workers and the disk alone, and
\* a poll that is answered takes the record the store holds.
WaitStepReads ==
    /\ (waiter' # waiter) =>
          UNCHANGED <<_RUN_STATE, pc, local, runs_exists, dirs, invoked>>
    /\ (waiter'.poll_count # waiter.poll_count /\ waiter'.pc = "polled") =>
          (waiter'.rec = Some(_RUN_STATE[waiter.run_id]))

\* C22: wait_for_completion returns the first polled record with status
\* completed or failed, after exactly the polls it took to see it and at
\* least one; it raises TimeoutError only when the last poll gave a
\* non-terminal status and the elapsed time read after it is above the
\* timeout; every poll gets the record as the store holds it; no step of the
\* method changes the store, the worker or the disk, and after it has given
\* up the worker still runs.
C22_WaitOnlyReads ==
    /\ [](waiter.pc = "returned" =>
            /\ FirstTerminalAt(waiter.poll_count)
            /\ waiter.result = waiter.rec
            /\ waiter.result[1].status = waiter.seen[waiter.poll_count])
    /\ [](waiter.error = Some("TimeoutError") =>
            /\ waiter.poll_count >= 1
            /\ Len(waiter.seen) = waiter.poll_count
            /\ waiter.seen[waiter.poll_count] \notin Terminal
            /\ waiter.elapsed > waiter.timeout)
    /\ [](waiter.pc = "raised" => WorkerNotStopped)
    /\ [][WaitStepReads]_vars

\* The wait gave up after two polls of a running record, and the run has
\* completed since.
C22_Witness ==
    /\ waiter.error = Some("TimeoutError")
    /\ waiter.poll_count = 2
    /\ waiter.run_id \in DOMAIN _RUN_STATE
    /\ _RUN_STATE[waiter.run_id].status = "completed"

\* ------------------------------------------------------------------- C23

\* The analysis file of the task of the call: None when the directory has
\* none, else Some of what reading it gives.
CalledAnalysis ==
    IF analysis_file(call.args[1]) \in DOMAIN call.args[2]
    THEN Some(call.args[2][analysis_file(call.args[1])])
    ELSE None

IsWordStart(text, i) ==
    /\ text[i] \notin Whitespace
    /\ (i = 1 \/ text[i - 1] \in Whitespace)

\* The number of whitespace-separated words of a text.
WordsIn(text) == Cardinality({i \in DOMAIN text : IsWordStart(text, i)})

RECURSIVE SumOver(_, _)
SumOver(f, n) == IF n = 0 THEN 0 ELSE f[n] + SumOver(f, n - 1)

\* C24: grade_all_tasks(dir, tasks) returns, for every task list, the result
\* of grade_technique_task for each requested task, and a summary whose total
\* is the number of requested tasks, whose passed is the number of them with
\* a passing result, whose total_words is the sum of their word counts and
\* whose pass_rate is passed / total.
C24_SummaryCountsResults ==
    (call.fn = "grade_all_tasks" /\ call.result # None) =>
        LET dir == call.args[1]
            tasks == call.args[2]
            each == [k \in DOMAIN tasks |-> grade_technique_task(tasks[k], dir)]
        IN  /\ call.result[1].exception = None
            /\ LET results == call.result[1].value[1] IN
               /\ DOMAIN results.tasks = {tasks[k] : k \in DOMAIN tasks}
               /\ \A k \in DOMAIN tasks : results.tasks[tasks[k]] = each[k]
               /\ results.summary.total = Len(tasks)
               /\ results.summary.passed
                     = Cardinality({k \in DOMAIN tasks : each[k].passed})
               /\ results.summary.total_words
                     = SumOver([k \in DOMAIN tasks |-> each[k].word_count], Len(tasks))
               /\ results.summary.pass_rate
                     = <<results.summary.passed, results.summary.total>>

\* ------------------------------------------------------------------- C25

\* The writes to the record of run r, in the order they were made.
IsWriteTo(r, op) == op.run_id = r
WritesTo(r) == SelectSeq(history.written, LAMBDA op : IsWriteTo(r, op))

\* The entries appended to the record of run r, in order.
AppendedTo(r) ==
    LET appends == SelectSeq(WritesTo(r), LAMBDA op : op.fn = "_append_log")
    IN  [k \in DOMAIN appends |-> appends[k].arg]

\* The last status written to the record of run r; queued when there is none.
LastStatusOf(r) ==
    LET updates == SelectSeq(WritesTo(r), LAMBDA op : op.fn = "_update")
    IN  IF updates = <<>> THEN "queued" ELSE updates[Len(updates)].arg.status

\* A step changes a record only as the write of a thread that holds that
\* record's copy, and then no other record.
OnlyOwnRecordWritten ==
    \A r \in RunIds : (_RUN_STATE'[r] # _RUN_STATE[r]) =>
        /\ \E t \in Writers :
              /\ threads[t].pc = "put"
              /\ threads'[t].pc = "idle"
              /\ threads[t].op[1].run_id = r
        /\ \A o \in RunIds \ {r} : _RUN_STATE'[o] = _RUN_STATE[o]

\* C25: whatever the interleaving of _update, _append_log and the reads, no
\* write is lost: each record's log is the entries appended to it, in the
\* order of the writes, and its status is the last one written to it; a call
\* for one run's record leaves every other record as it was, and a call for an
\* unknown run changes nothing.
C25_NoWriteLost ==
    /\ [](\A r \in RunIds :
            /\ _RUN_STATE[r].logs = AppendedTo(r)
            /\ _RUN_STATE[r].status = LastStatusOf(r))
    /\ [](DOMAIN _RUN_STATE = RunIds)
    /\ [][OnlyOwnRecordWritten]_vars

\* Both workers have appended to the record of run 1 and one of them is
\* waiting for the lock, which the other holds for a further write to it.
C25_Witness ==
    /\ Len(_RUN_STATE[1].logs) = 2
    /\ _RUN_STATE[1].logs[1].stage[1] # _RUN_STATE[1].logs[2].stage[1]
    /\ \E t \in Writers, u \in Writers :
          /\ _STATE_LOCK = Some(t)
          /\ threads[t].pc = "put"
          /\ threads[t].op[1].run_id = 1
          /\ threads[u].pc = "acquire"
          /\ threads[u].op[1].run_id = 1

\* ------------------------------------------------------------------- C26

\* The values the record of run r has had in the store.
VersionsOf(r) == {history.versions[r][k] : k \in DOMAIN history.versions[r]}

\* C26: every record a read handler has returned is a value that record had
\* in the store at one moment, with all its fields from that moment, though
\* the response is built after the lock is released and while workers write;
\* a listing holds each record as it was at the one moment of the listing.
C26_ReadsAreSnapshots ==
    \A t \in Readers :
        (threads[t].pc = "idle" /\ threads[t].out # None) =>
            /\ \A r \in DOMAIN threads[t].out[1] :
                  threads[t].out[1][r] \in VersionsOf(r)
            /\ threads[t].out[1] = threads[t].data[1]

\* A read of the record of run 1 was answered with its value of before two
\* writes that were made while the answer was built.
C26_Witness ==
    \E t \in Readers :
        /\ threads[t].pc = "idle"
        /\ threads[t].out # None
        /\ 1 \in DOMAIN threads[t].out[1]
        /\ threads[t].out[1][1].status = "queued"
        /\ threads[t].out[1][1].logs = <<>>
        /\ _RUN_STATE[1].status = "running"
        /\ Len(_RUN_STATE[1].logs) = 1

\* ------------------------------------------------------------------- C27

\* The log of run r is as it was, or has one more entry at its end.
LogKeptOrExtended(r) ==
    LET before == _RUN_STATE[r].logs
        after == _RUN_STATE'[r].logs
    IN  \/ after = before
        \/ /\ Len(after) = Len(before) + 1
           /\ SubSeq(after, 1, Len(before)) = before

\* C27: over every step of every worker, with two runs at once, the log of
\* each record stays as it is or gets exactly one entry at its end; no entry
\* is removed, replaced or moved, and no record leaves the store.
C27_LogOnlyAppended ==
    [][/\ DOMAIN _RUN_STATE \subseteq DOMAIN _RUN_STATE'
       /\ \A r \in DOMAIN _RUN_STATE : LogKeptOrExtended(r)]_vars

\* A record that was updated to completed after four entries were appended,
\* beside another run's record that has entries of its own.
C27_Witness ==
    \E r \in DOMAIN _RUN_STATE, o \in DOMAIN _RUN_STATE :
        /\ r # o
        /\ _RUN_STATE[r].status = "completed"
        /\ Len(_RUN_STATE[r].logs) = 4
        /\ _RUN_STATE[o].status = "running"
        /\ Len(_RUN_STATE[o].logs) >= 2

\* ------------------------------------------------------------------- C28

\* Run r's worker has called the process invoker in this step.
Invokes(r) == Len(invoked'[r]) = Len(invoked[r]) + 1

\* The step of a call by run r: the entry of the command just run, with its
\* exit code, is the one entry added to r's log, and to no other log.
OneEntryPerCall(r) ==
    LET c == invoked'[r][Len(invoked'[r])] IN
    /\ _RUN_STATE'[r].logs = Append(_RUN_STATE[r].logs, log_entry(c.cmd, c.out))
    /\ \A o \in DOMAIN _RUN_STATE \ {r} : _RUN_STATE'[o].logs = _RUN_STATE[o].logs

\* C28: every call of _run_cmd adds exactly one entry to the log of the
\* calling run, for a zero as for a nonzero exit; while the fault of a nonzero
\* exit is on its way to the handler, and ever after, the entry of the failing
\* command is the last of the record's log, so it is there when the record
\* becomes failed.
C28_EntryBeforeFault ==
    /\ [][\A r \in RunIds : Invokes(r) => OneEntryPerCall(r)]_vars
    /\ [](\A r \in DOMAIN _RUN_STATE :
            (StageExit(r) /\ (pc[r] = "except" \/ _RUN_STATE[r].status = "failed")) =>
                LET logs == _RUN_STATE[r].logs IN
                /\ logs # <<>>
                /\ logs[Len(logs)] = log_entry(LastInvoked(r).cmd, LastInvoked(r).out))

\* The fault of a failed agent command is raised and not yet handled: the
\* record is still running and already has the entry of the command.
C28_Witness ==
    \E r \in DOMAIN _RUN_STATE :
        /\ pc[r] = "except"
        /\ _RUN_STATE[r].status = "running"
        /\ Len(_RUN_STATE[r].logs) = 2
        /\ _RUN_STATE[r].logs[2].returncode # 0
        /\ stage_of(_RUN_STATE[r].logs[2].cmd) = "agent"

\* ---------------------------------------------------------------- C29

\* a comes before b in the lexicographic order: a is a proper prefix of b, or
\* at the first position where they differ a has the smaller character.
LexBefore(a, b) ==
    \/ /\ Len(a) < Len(b)
       /\ \A j \in 1..Len(a) : a[j] = b[j]
    \/ \E k \in 1..Len(a) :
          /\ k <= Len(b)
          /\ \A j \in 1..(k - 1) : a[j] = b[j]
          /\ ord[a[k]] < ord[b[k]]

\* The directories of the runs root of a finished discovery that its snapshot
\* does not hold.
NewDirectories ==
    LET before == call.args[1]
        root == call.args[2]
    IN  IF root = None THEN {}
        ELSE {name \in DOMAIN root[1] : root[1][name] /\ name \notin before}

Discovered == call.fn = "_discover_new_run_group" /\ call.result # None

\* C29: discovery returns the one name that is the lexicographically greatest
\* of the directories of the runs root that the prior snapshot does not hold;
\* it returns nothing when there is no such directory or no runs root.
C29_GreatestNewDirectory ==
    Discovered =>
        LET value == call.result[1] IN
        IF NewDirectories = {}
        THEN value = None
        ELSE \E d \in NewDirectories :
                /\ value = Some(d)
                /\ \A e \in NewDirectories \ {d} : LexBefore(e, d)

\* Prior snapshot {A, B}, directories {A, B, C, D} and a file 9: D is returned.
C29_Witness ==
    /\ Discovered
    /\ call.args[1] = {<<"A">>, <<"B">>}
    /\ call.args[2] # None
    /\ dir_names(call.args[2][1]) = {<<"A">>, <<"B">>, <<"C">>, <<"D">>}
    /\ <<"9">> \in DOMAIN call.args[2][1]
    /\ call.result[1] = Some(<<"D">>)

\* ---------------------------------------------------------------- C30

\* Run r takes the step of the discovery that follows an agent command.
DiscoveryStep(r) == pc[r] \in {"discover", "tt_discover"} /\ pc'[r] # pc[r]

\* Run r takes the step of the snapshot of the runs root.
SnapshotStep(r) == pc[r] = "snapshot" /\ pc'[r] # pc[r]

\* A discovery of run r that finds nothing raises the fault that fails the run.
NotFoundIsFatal(r) ==
    (DiscoveryStep(r) /\ _discover_new_run_group(local[r].before) = None) =>
        pc'[r] = "except"

\* A runs root that does not exist raises no fault at the snapshot, and at the
\* discovery no other fault than that of a group not found.
MissingRootIsNotFound(r) ==
    /\ SnapshotStep(r) => pc'[r] # "except"
    /\ (DiscoveryStep(r) /\ ~runs_exists /\ pc'[r] = "except") =>
           local'[r].exc = Some(Lit("Could not find new run group after agent run"))

NotFoundHandled ==
    \A r \in DOMAIN _RUN_STATE : NotFoundIsFatal(r) /\ MissingRootIsNotFound(r)

\* C30: in both pipelines a discovery after an agent command that finds
\* nothing fails the run, and a runs root that does not exist is taken as
\* nothing found, at the snapshot and at the discovery, not as a fault.
C30_NotFoundFatalMissingRootNotFound == [][NotFoundHandled]_vars

\* ---------------------------------------------------------------- C31

\* The names the directories of the runs root can have: one per agent command.
DirIds == 1..(MaxTasks + 1)

\* Run r is in its Prepare stage: the snapshot is behind it, the prepare
\* command has not returned.
Preparing(r) == pc[r] = "prepare"

\* Run r is about to diff the runs root against its snapshot.
Discovering(r) == pc[r] \in {"discover", "tt_discover"}

\* A directory that is in the runs root while Prepare is running is in the
\* snapshot of every later discovery of the run, hence not counted as new.
DirectoryOfPrepareTimeNotNew ==
    \A r \in RunIds : \A d \in DirIds :
        []((Preparing(r) /\ d \in DOMAIN dirs) =>
              [](Discovering(r) => d \in local[r].before))

\* The prepare command of run r has returned with exit code 0 and no other
\* command of the run has started.
PrepareFinished(r) ==
    /\ Len(invoked[r]) = 1
    /\ stage_of(invoked[r][1].cmd) = "prepare"
    /\ invoked[r][1].out.returncode = 0

\* C31: the snapshot that discovery is diffed against is taken after the
\* Prepare stage has finished and before the agent command starts: at the step
\* that takes the snapshot of a run, the prepare command of the run has
\* returned and it is the only command the run has invoked (so a directory
\* that appeared while Prepare was running is in the snapshot).
C31_SnapshotAfterPrepare ==
    [][\A r \in RunIds : SnapshotStep(r) => PrepareFinished(r)]_vars

\* ---------------------------------------------------------------- C32

\* The run-groups the fan-out of run r has discovered so far, one per task
\* whose discovery found one.
DiscoveredGroups(r) == local[r].all_run_groups

NoGroupTwice(r) ==
    \A j, k \in DOMAIN DiscoveredGroups(r) :
        j # k => DiscoveredGroups(r)[j] # DiscoveredGroups(r)[k]

\* Every discovered group was made by an agent command of run r, and later
\* than the groups discovered for the tasks before it (a name starts with the
\* time of its creation).
OwnGroupsInTaskOrder(r) ==
    LET G == DiscoveredGroups(r) IN
    /\ \A k \in DOMAIN G : G[k] \in DOMAIN dirs /\ dirs[G[k]] = r
    /\ \A j, k \in DOMAIN G : j < k => G[j] < G[k]

\* C32: in the fan-out pipeline the list of discovered run-groups never holds
\* a directory twice, and the group attributed to a task is the directory its
\* own agent command made: never one another run made, and never one an
\* earlier task of the run made and left undiscovered.
C32_OwnDirectoryPerTask ==
    \A r \in DOMAIN _RUN_STATE :
        ~SingleTask(r) => NoGroupTwice(r) /\ OwnGroupsInTaskOrder(r)

\* ---------------------------------------------------------------- C33

\* The task list of the request of run r.
RequestedTasks(r) == _RUN_STATE[r].request.tasks[1]

\* The k-th command of run r is the agent command with the selector of `task`.
AgentFor(r, k, task) ==
    /\ HasTechniqueTask(invoked[r][k].cmd)
    /\ invoked[r][k].cmd[12] = task

\* Nothing of run r has been graded: no directory was visited and, r being
\* the only run, no grade file written.
NotGraded(r) ==
    /\ walked[r] = <<>>
    /\ DOMAIN _RUN_STATE = {r} => technique_grades = <<>>

\* C33: in the fan-out pipeline the first command is the one prepare command;
\* the commands after it are the agent commands of the requested tasks, the
\* k-th task's as the k-th of them, each once; every command but the last
\* invoked exited 0, so a nonzero exit ends the sequence, and then nothing is
\* graded and the run does not complete; a completed run has run the agent
\* command of every task.
C33_PrepareThenAgentPerTask ==
    \A r \in DOMAIN _RUN_STATE :
        ~SingleTask(r) =>
            LET n == Len(invoked[r])
                tasks == RequestedTasks(r)
            IN  /\ n <= Len(tasks) + 1
                /\ n >= 1 => stage_of(invoked[r][1].cmd) = "prepare"
                /\ \A k \in 2..n : AgentFor(r, k, tasks[k - 1])
                /\ \A k \in 1..(n - 1) : invoked[r][k].out.returncode = 0
                /\ StageExit(r) =>
                      /\ pc[r] \in {"except", "done"}
                      /\ NotGraded(r)
                      /\ _RUN_STATE[r].status # "completed"
                /\ _RUN_STATE[r].status = "completed" => n = Len(tasks) + 1

\* A run of two tasks whose second agent command exited nonzero has ended
\* failed, after prepare and the two agent commands.
C33_Witness ==
    \E r \in DOMAIN _RUN_STATE :
        /\ ~SingleTask(r)
        /\ Len(RequestedTasks(r)) = 2
        /\ Len(invoked[r]) = 3
        /\ AgentFor(r, 2, "imbalance") /\ AgentFor(r, 3, "missing")
        /\ StageExit(r)
        /\ pc[r] = "done"
        /\ _RUN_STATE[r].status = "failed"

\* ---------------------------------------------------------------- C34

\* The lines of a file that are not blank, without the white space around them.
NonBlankLines(f) == {strip(f[k]) : k \in DOMAIN f} \ {<<>>}

Prepared == call.fn = "prepare" /\ call.result # None

\* C34: for both values of the lite flag, the competitions the preparation
\* tool processes when the server invokes it are the non-blank lines of the
\* request's competition-set file.
C34_PreparesListedCompetitions ==
    Prepared =>
        LET ids == call.result[1] IN
        {ids[k] : k \in DOMAIN ids} = NonBlankLines(call.args[2])

\* ---------------------------------------------------------------- C35

\* A step in which a call of _update or _append_log returns.
PrimitiveReturns == call.result = None /\ call'.result # None

\* The call is for an identifier the store does not have.
UnknownId == call.args[1] \notin DOMAIN _RUN_STATE

UnknownIdIsNoOp ==
    (PrimitiveReturns /\ UnknownId) =>
        /\ call'.result = Some("returned")
        /\ _RUN_STATE' = _RUN_STATE

\* C35: _update and _append_log called with an identifier that is not in the
\* store return without a fault and leave the whole store as it was: no record
\* is created and no record's fields, updated_at included, change.
C35_UnknownIdLeavesStore == [][UnknownIdIsNoOp]_vars

\* A call for an unknown identifier has returned, later than the last write of
\* a record of the store.
C35_Witness ==
    /\ call.fn \in {"_update", "_append_log"}
    /\ call.result = Some("returned")
    /\ UnknownId
    /\ \E r \in DOMAIN _RUN_STATE : _RUN_STATE[r].updated_at < now

\* ---------------------------------------------------------------- C36

\* The record of run r is written in this step.
Mutated(r) == _RUN_STATE'[r] # _RUN_STATE[r]

\* A write sets updated_at to the time of the write and keeps the identity of
\* the record; whatever the step, updated_at does not go down.
MutationRefreshes ==
    \A r \in DOMAIN _RUN_STATE :
        /\ Mutated(r) =>
              /\ _RUN_STATE'[r].updated_at = now
              /\ _RUN_STATE'[r].run_id = _RUN_STATE[r].run_id
              /\ _RUN_STATE'[r].created_at = _RUN_STATE[r].created_at
              /\ _RUN_STATE'[r].request = _RUN_STATE[r].request
        /\ _RUN_STATE'[r].updated_at >= _RUN_STATE[r].updated_at

NotBeforeCreation ==
    \A r \in DOMAIN _RUN_STATE : _RUN_STATE[r].updated_at >= _RUN_STATE[r].created_at

\* C36: every _update and _append_log on a record of the store sets its
\* updated_at to the time of the operation and leaves run_id, created_at and
\* request as they were; with a clock that never goes back, updated_at never
\* decreases and is never earlier than created_at.
C36_UpdatedAtRefreshed == []NotBeforeCreation /\ [][MutationRefreshes]_vars

\* A record written after the clock has moved on from its creation.
C36_Witness ==
    \E r \in DOMAIN _RUN_STATE :
        /\ _RUN_STATE[r].updated_at > _RUN_STATE[r].created_at
        /\ _RUN_STATE[r].updated_at = now
        /\ _RUN_STATE[r].logs # <<>>
        /\ _RUN_STATE[r].status = "running"

\* ---------------------------------------------------------------- C37

TerminalRecordKept ==
    \A r \in DOMAIN _RUN_STATE :
        _RUN_STATE[r].status \in Terminal => _RUN_STATE'[r] = _RUN_STATE[r]

\* C37: once the status of a record is completed or failed, no step changes
\* the record: no log entry is added and status, message, run_group, run_dir
\* and updated_at stay as the terminal update left them, in both pipelines and
\* whatever the other run does meanwhile.
C37_TerminalRecordFrozen == [][TerminalRecordKept]_vars

\* A record that failed at an earlier time, while the other run has written to
\* its own record since.
C37_Witness ==
    \E r, o \in DOMAIN _RUN_STATE :
        /\ r # o
        /\ _RUN_STATE[r].status = "failed"
        /\ _RUN_STATE[r].logs # <<>>
        /\ _RUN_STATE[r].updated_at < now
        /\ _RUN_STATE[o].updated_at > _RUN_STATE[r].updated_at
        /\ _RUN_STATE[o].status = "completed"

\* ---------------------------------------------------------------- C38

\* Every worker thread that has been started has its record in the store.
StartedWorkersHaveRecord ==
    \A r \in RunIds : pc[r] # "idle" => r \in DOMAIN _RUN_STATE

\* create_run has returned an identifier.
IntakeReturned == call.fn = "create_run" /\ call.result # None

\* The record can be read by the identifier create_run returned.
ReturnedIdReadable ==
    IntakeReturned =>
        LET answer == get_run_response(call.result[1].run_id) IN
        /\ answer.code = 200
        /\ answer.body.run_id = call.result[1].run_id

\* The first update of a worker takes effect: its record is running after it.
FirstUpdateFindsRecord ==
    \A r \in RunIds :
        (pc[r] = "worker" /\ pc'[r] = "snapshot") =>
            /\ r \in DOMAIN _RUN_STATE'
            /\ _RUN_STATE'[r].status = "running"

\* C38: the record is in the store before its worker is started, so under
\* every interleaving the worker's first update and all its later updates and
\* appends find the record, none being dropped for an unknown identifier, and
\* the record can be read by the returned run_id once create_run has returned.
C38_RecordBeforeWorker ==
    /\ [](StartedWorkersHaveRecord /\ ReturnedIdReadable)
    /\ [][FirstUpdateFindsRecord]_vars

\* The worker of the second run made its first update before create_run had
\* returned the identifier.
C38_Witness ==
    /\ call.fn = "create_run"
    /\ call.at = "return"
    /\ call.run_id = 2
    /\ _RUN_STATE[2].status = "running"
    /\ pc[2] = "snapshot"

\* ---------------------------------------------------------------- C39

ToolsGraded == call.fn = "run_tools_on_grade" /\ call.result # None

\* The tool tasks listed for the call.
ListedTasks == {call.args[3][k] : k \in DOMAIN call.args[3]}

\* The grader of task t raises.
GraderRaises(t) == call.args[4][t].kind = "raises"

\* The grader of task t returns a grade whose score is a number.
GraderGrades(t) ==
    /\ call.args[4][t].kind = "returns"
    /\ "score" \in DOMAIN call.args[4][t].value
    /\ call.args[4][t].value.score # None

\* C39: run_tools_on_grade returns without a fault; with a submission
\* directory, the mapping it returns has one entry per listed tool task and is
\* what the tool_tasks file holds, a task whose grader raises has score 0,
\* passed false and the text of the fault, and the other tasks are graded all
\* the same, each grade a grader returns being its task's entry; without a
\* submission directory the mapping is empty and no file is written.
C39_FaultsIsolatedPerTask ==
    ToolsGraded =>
        LET out == call.result[1] IN
        /\ out.exception = None
        /\ out.value # None
        /\ IF ~call.args[2]
           THEN /\ out.value[1].tool_task_grades = <<>>
                /\ out.written = None
           ELSE LET grades == out.value[1].tool_task_grades IN
                /\ out.written = out.value
                /\ DOMAIN grades = ListedTasks
                /\ \A t \in ListedTasks :
                      /\ GraderRaises(t) =>
                            /\ grades[t].score = Some(0)
                            /\ grades[t].passed = FALSE
                            /\ grades[t].error = call.args[4][t].text
                      /\ GraderGrades(t) => grades[t] = call.args[4][t].value

\* The grader of cv raised and leakage, listed after it, was graded.
C39_Witness ==
    /\ ToolsGraded
    /\ call.args[2]
    /\ call.args[3] = <<"cv", "leakage">>
    /\ GraderRaises("cv")
    /\ GraderGrades("leakage")
    /\ call.result[1].value[1].tool_task_grades["leakage"].passed
    /\ "error" \in DOMAIN call.result[1].value[1].tool_task_grades["cv"]

====
